---------------------------- MODULE Spec2Model ----------------------------
(***************************************************************************)
(* Model of the dora-tui protocol client: the server-sent-event decoder    *)
(* (crates/dora-protocol-client/src/lib.rs, read_next_event and the typed  *)
(* streams built on it) and the metrics streaming cache                    *)
(* (binaries/tui/src/tui/bridge.rs, spawn_metrics_stream).                 *)
(*                                                                         *)
(* Text is modelled as a sequence of one-character strings, so that        *)
(* trimming, prefix stripping and joining are computed as the code         *)
(* computes them.                                                          *)
(***************************************************************************)
EXTENDS Integers, Sequences, FiniteSets, TLC

VARIABLES
    input,      \* everything the HTTP response body will deliver: a sequence of line results
    lines,      \* the part of `input` the Lines iterator has not yet yielded
    buffer,     \* the stream's accumulation buffer (Vec<String>)
    items,      \* history: the items returned so far by read_next_event to the test driver
    cpc,        \* position of the background metrics consumer thread
    craw,       \* the frame the consumer has decoded and not yet converted (or NoFrame)
    cmetrics,   \* the converted snapshot the consumer is about to store (or NoValue)
    cache,      \* the shared slot: Arc<Mutex<Option<SystemMetrics>>> contents
    lockHolder, \* who holds the slot's mutex: "none", "consumer" or "reader"
    rpc,        \* position of a reader of the slot
    rval,       \* the copy the reader took on its last read
    now,        \* the clock read by Instant::now()
    decoded,    \* history: frames the typed stream yielded as Ok, in order
    published,  \* history: snapshots written to the slot, in order
    opens,      \* history: how many times the consumer tried to open the metrics stream
    rafter,     \* history: whether the reader's last copy was taken after the consumer ended
    rwaited,    \* history: consumer writes completed since the reader began to wait
    feature,    \* the backend the binary was built with: "protocol" or "tui-cli-services"
    baseUrl,    \* the configured base URL (DORA_PROTOCOL_URL or the default), unparsed
    bundle,     \* what default_service_bundle produced: nothing yet, a panic or a ServiceBundle
    transport,  \* ProtocolClients.transport.base: the normalized base URL once constructed
    serverPrefs,\* the gateway's stored UserPreferencesSnapshot
    call,       \* the last call made on the client and what it returned
    lresponse,  \* the gateway's answer to the log stream request, with the body it will deliver
    llines,     \* the part of the log body the LogStream's Lines iterator has not yet yielded
    lbuffer,    \* the LogStream's accumulation buffer
    lpc,        \* position of spawn_protocol_log_stream and of the worker it starts
    chan,       \* the events sent on the mpsc channel and not yet received
    rx,         \* the receiver: "none" (not returned), "held" or "dropped"
    received,   \* history: the events the holder of the receiver has received
    levents,    \* history: the events the worker has decoded from the log stream
    lopens,     \* how many times clients.log_stream was called
    lthreads,   \* how many threads spawn_protocol_log_stream has started
    current_view, \* DoraApp: the view on display
    view_stack,   \* DoraApp: the views to return to, oldest first
    pushes,     \* how many times push_view was called
    pops        \* how many times pop_view took a view off the stack


vars == <<input, lines, buffer, items, cpc, craw, cmetrics, cache, lockHolder,
          rpc, rval, now, decoded, published, opens, rafter, rwaited,
          feature, baseUrl, bundle, transport, serverPrefs, call,
          lresponse, llines, lbuffer, lpc, chan, rx, received, levents, lopens,
          lthreads, current_view, view_stack, pushes, pops>>

decoderVars == <<input, lines, buffer, items>>
clientVars == <<feature, baseUrl, bundle, transport, serverPrefs, call>>
cacheVars == <<cpc, craw, cmetrics, cache, lockHolder, rpc, rval, now,
               decoded, published, opens, rafter, rwaited>>
logVars == <<lresponse, llines, lbuffer, lpc, chan, rx, received, levents,
             lopens, lthreads>>
appVars == <<current_view, view_stack, pushes, pops>>

\* spawn_protocol_log_stream has not been called
InitNoLog ==
    /\ lresponse = [kind |-> "refused"]
    /\ llines = <<>>
    /\ lbuffer = <<>>
    /\ lpc = "idle"
    /\ chan = <<>>
    /\ rx = "none"
    /\ received = <<>>
    /\ levents = <<>>
    /\ lopens = 0
    /\ lthreads = 0

\* DoraApp::new(ViewType::Dashboard)
InitApp ==
    /\ current_view = "Dashboard"
    /\ view_stack = <<>>
    /\ pushes = 0
    /\ pops = 0

---------------------------------------------------------------------------
(* Bounds of the model *)

\* longest response body, in lines, the decoder specification explores
MaxLines == 5
\* how many times the driver calls the decoder again after it reported the end
MaxEndCalls == 2
\* longest response body, in lines, of the metrics stream
MaxMetricsLines == 4
\* latest instant the clock reaches
MaxNow == 1

---------------------------------------------------------------------------
(* Text helpers: str::trim_end, str::trim_start, str::strip_prefix, join *)

\* char::is_whitespace, for the characters that can occur inside one line
IsWhitespace(c) == c \in {" ", "\t", "\r"}

RECURSIVE TrimEnd(_)
TrimEnd(s) ==
    IF s = <<>> THEN <<>>
    ELSE IF IsWhitespace(s[Len(s)]) THEN TrimEnd(SubSeq(s, 1, Len(s) - 1))
    ELSE s

RECURSIVE TrimStart(_)
TrimStart(s) ==
    IF s = <<>> THEN <<>>
    ELSE IF IsWhitespace(Head(s)) THEN TrimStart(Tail(s))
    ELSE s

StartsWith(s, p) == Len(s) >= Len(p) /\ SubSeq(s, 1, Len(p)) = p

\* the "data:" marker of an event line
Marker == <<"d", "a", "t", "a", ":">>

\* Vec<String>::join("\n")
RECURSIVE Join(_)
Join(buf) ==
    IF buf = <<>> THEN <<>>
    ELSE IF Len(buf) = 1 THEN buf[1]
    ELSE buf[1] \o <<"\n">> \o Join(Tail(buf))

---------------------------------------------------------------------------
(* read_next_event *)

OkLine(text) == [ok |-> TRUE, text |-> text]
IoError == [ok |-> FALSE, text |-> <<>>]

NoneItem == [tag |-> "None", payload |-> <<>>]
ErrItem == [tag |-> "Err", payload |-> <<>>]
OkItem(p) == [tag |-> "Ok", payload |-> p]

\* line.trim_end()
TrimLine(line) == TrimEnd(line)

\* trimmed.strip_prefix("data:").is_some()
IsDataLine(trimmed) == StartsWith(trimmed, Marker)

\* mutant: the marker is stripped, the whitespace after it is kept
DataContentKeepLeading(trimmed) == SubSeq(trimmed, Len(Marker) + 1, Len(trimmed))

\* rest.trim_start(), where rest is what follows the marker
DataContent(trimmed) == TrimStart(SubSeq(trimmed, Len(Marker) + 1, Len(trimmed)))

\* mutant: a data line is put in front of the buffer
PushLineFront(buf, trimmed) ==
    IF IsDataLine(trimmed) THEN <<DataContent(trimmed)>> \o buf ELSE buf

\* mutant: a line without the marker is pushed as it is
PushLineAny(buf, trimmed) ==
    IF IsDataLine(trimmed) THEN Append(buf, DataContent(trimmed))
    ELSE Append(buf, trimmed)

\* the tail of the loop body: a data line is pushed, any other line is dropped
PushLine(buf, trimmed) ==
    IF IsDataLine(trimmed) THEN Append(buf, DataContent(trimmed)) ELSE buf

\* buffer.join("\n") handed out as the payload
EmitPayload(buf) == OkItem(Join(buf))

\* mutant: the buffer is left as it is
ClearBufferKeep(buf) == buf

\* buffer.clear()
ClearBuffer(buf) == <<>>

\* mutant: the end of the stream drops what the buffer holds
EndOfStreamNoFlush(buf) == [item |-> NoneItem, lines |-> <<>>, buffer |-> buf]

\* mutant: the final payload is handed out and the buffer is left as it is
EndOfStreamKeepBuffer(buf) ==
    IF buf = <<>>
    THEN [item |-> NoneItem, lines |-> <<>>, buffer |-> buf]
    ELSE [item |-> EmitPayload(buf), lines |-> <<>>, buffer |-> buf]

\* after the loop: the iterator is exhausted
EndOfStream(buf) ==
    IF buf = <<>>
    THEN [item |-> NoneItem, lines |-> <<>>, buffer |-> buf]
    ELSE [item |-> EmitPayload(buf), lines |-> <<>>, buffer |-> ClearBuffer(buf)]

\* mutant: a blank line ends an event also when the buffer holds nothing
RECURSIVE ReadNextEventBlankEmits(_, _)
ReadNextEventBlankEmits(ls, buf) ==
    IF ls = <<>> THEN EndOfStream(buf)
    ELSE LET r == Head(ls)
             rest == Tail(ls)
         IN IF ~r.ok
            THEN [item |-> ErrItem, lines |-> rest, buffer |-> buf]
            ELSE LET trimmed == TrimLine(r.text)
                 IN IF trimmed = <<>>
                    THEN [item |-> EmitPayload(buf), lines |-> rest,
                          buffer |-> ClearBuffer(buf)]
                    ELSE ReadNextEventBlankEmits(rest, PushLine(buf, trimmed))

\* one call of read_next_event on the remaining lines `ls` and the buffer `buf`:
\* the item returned, the lines left and the buffer left
RECURSIVE ReadNextEvent(_, _)
ReadNextEvent(ls, buf) ==
    IF ls = <<>> THEN EndOfStream(buf)
    ELSE LET r == Head(ls)
             rest == Tail(ls)
         IN IF ~r.ok
            THEN [item |-> ErrItem, lines |-> rest, buffer |-> buf]
            ELSE LET trimmed == TrimLine(r.text)
                 IN IF trimmed = <<>>
                    THEN IF buf = <<>>
                         THEN ReadNextEvent(rest, buf)
                         ELSE [item |-> EmitPayload(buf), lines |-> rest,
                               buffer |-> ClearBuffer(buf)]
                    ELSE ReadNextEvent(rest, PushLine(buf, trimmed))

---------------------------------------------------------------------------
(* The response bodies the model explores *)

\* all sequences over S of length at most n
SeqsUpTo(S, n) == UNION {[1..k -> S] : k \in 0..n}

\* "" | " " | "data:" | "data: a" | "data:b " | "event: a" | " data: a"
DecoderLineTexts ==
    { <<>>,
      <<" ">>,
      Marker,
      Marker \o <<" ", "a">>,
      Marker \o <<"b", " ">>,
      <<"e", "v", "e", "n", "t", ":", " ", "a">>,
      <<" ">> \o Marker \o <<" ", "a">> }

DecoderElems == {OkLine(t) : t \in DecoderLineTexts} \cup {IoError}

---------------------------------------------------------------------------
(* Results and the client's error type (error.rs) *)

Ok(x) == [ok |-> TRUE, value |-> x]
Err(e) == [ok |-> FALSE, error |-> e]

\* #[error("invalid base url: {0}")] InvalidUrl(#[from] url::ParseError)
InvalidUrl == [variant |-> "InvalidUrl", text |-> "invalid base url"]
\* #[error("http request failed: {0}")] Http(#[from] reqwest::Error); the reqwest
\* error keeps its own kind: "request" (send failed), "status", "decode"
Http(kind) == [variant |-> "Http", text |-> "http request failed", kind |-> kind]
\* #[error("failed to decode response: {0}")] Deserialize(#[from] serde_json::Error)
Deserialize == [variant |-> "Deserialize", text |-> "failed to decode response"]

---------------------------------------------------------------------------
(* URLs: the base URL and Transport::endpoint.  A text is a tuple of atoms; "/"
   and "." are always atoms of their own.  A parsed URL is its authority and
   the list of its path segments: <<"a", "">> is the path /a/ . *)

Slash == "/"
Dot == "."

\* the configured texts: [wellFormed, authority, path] are the parts of an
\* absolute http URL as written; a text that is no absolute URL (such as
\* 127.0.0.1:7267 without scheme) has wellFormed = FALSE
RawUrl(auth, path) == [wellFormed |-> TRUE, authority |-> auth, path |-> path]
MalformedUrl == [wellFormed |-> FALSE, authority |-> <<>>, path |-> <<>>]

\* "http://127.0.0.1:7267"
DefaultBaseUrl == RawUrl(<<"127.0.0.1:7267">>, <<>>)

\* the pieces of s between its "/" atoms: k separators give k + 1 pieces
RECURSIVE SplitBy(_, _)
SplitBy(s, cur) ==
    IF s = <<>> THEN <<cur>>
    ELSE IF Head(s) = Slash THEN <<cur>> \o SplitBy(Tail(s), <<>>)
    ELSE SplitBy(Tail(s), Append(cur, Head(s)))

Split(s) == SplitBy(s, <<>>)

\* shorten a path: drop its last segment, if it has one
PopSegment(path) == IF path = <<>> THEN path ELSE SubSeq(path, 1, Len(path) - 1)

\* the URL parser's path state: segments are appended to acc; "." is skipped
\* and ".." removes the last segment; either of them in last place leaves an
\* empty last segment
RECURSIVE ParsePath(_, _)
ParsePath(acc, segs) ==
    IF segs = <<>> THEN acc
    ELSE LET seg == Head(segs)
             last == Len(segs) = 1
         IN IF seg = <<Dot, Dot>>
            THEN ParsePath(IF last THEN Append(PopSegment(acc), <<>>)
                           ELSE PopSegment(acc), Tail(segs))
            ELSE IF seg = <<Dot>>
            THEN ParsePath(IF last THEN Append(acc, <<>>) ELSE acc, Tail(segs))
            ELSE ParsePath(Append(acc, seg), Tail(segs))

\* the path of an absolute URL text: the empty path is "/"
ParseAbsolutePath(text) ==
    IF text = <<>> THEN << <<>> >> ELSE ParsePath(<<>>, Split(Tail(text)))

\* path.ends_with('/')
EndsWithSlash(path) == path[Len(path)] = <<>>

\* Url::parse(raw)
UrlParse(raw) ==
    IF raw.wellFormed
    THEN Ok([authority |-> raw.authority, path |-> ParseAbsolutePath(raw.path)])
    ELSE Err(InvalidUrl)

\* normalize_base_url that leaves the path as parsed
NormalizeBaseUrlKeep(raw) == UrlParse(raw)

\* normalize_base_url(raw): push a '/' onto a path that does not end with one
NormalizeBaseUrl(raw) ==
    LET parsed == UrlParse(raw)
    IN IF ~parsed.ok THEN parsed
       ELSE IF ~EndsWithSlash(parsed.value.path)
       THEN Ok([parsed.value EXCEPT !.path = Append(parsed.value.path, <<>>)])
       ELSE parsed

\* the rest of s after its leading "/" atoms
RECURSIVE SkipSlashes(_)
SkipSlashes(s) == IF s # <<>> /\ Head(s) = Slash THEN SkipSlashes(Tail(s)) ELSE s

\* Url::join(base, reference): an empty reference is the base; a reference that
\* begins with "//" replaces the authority and the path (for http any further
\* "/" before the host is skipped, and a missing host is an error); one that
\* begins with a single "/" replaces the path; any other is resolved against
\* the base path without its last segment
UrlJoin(base, reference) ==
    IF reference = <<>> THEN Ok(base)
    ELSE IF Len(reference) >= 2 /\ reference[1] = Slash /\ reference[2] = Slash
    THEN LET parts == Split(SkipSlashes(reference))
         IN IF parts[1] = <<>> THEN Err(InvalidUrl)
            ELSE Ok([authority |-> parts[1],
                     path |-> IF Len(parts) = 1 THEN << <<>> >>
                              ELSE ParsePath(<<>>, Tail(parts))])
    ELSE IF reference[1] = Slash
    THEN Ok([base EXCEPT !.path = ParsePath(<<>>, Split(Tail(reference)))])
    ELSE Ok([base EXCEPT !.path = ParsePath(PopSegment(base.path), Split(reference))])

\* Transport::endpoint(path): strip one leading '/', then join onto the base
Endpoint(base, path) ==
    LET normalized == IF path # <<>> /\ path[1] = Slash THEN Tail(path) ELSE path
    IN UrlJoin(base, normalized)

\* the transport of the clients that default_service_bundle builds from the
\* default base URL
DefaultTransport == [some |-> TRUE, value |-> NormalizeBaseUrl(DefaultBaseUrl).value]

---------------------------------------------------------------------------
(* Preferences: the wire snapshot and the UI snapshot *)

\* format!("{mode:?}").to_lowercase()
DebugLowercase(mode) ==
    CASE mode = "Auto" -> "auto"
      [] mode = "Cli" -> "cli"
      [] mode = "Tui" -> "tui"
      [] mode = "Minimal" -> "minimal"

\* map_preferences_to_ui with an absent flag read as "off"
MapPreferencesToUiAbsentOff(snapshot) ==
    LET auto_refresh == snapshot.auto_refresh.some /\ snapshot.auto_refresh.value
    IN [theme |-> IF snapshot.theme.some THEN snapshot.theme.value ELSE "auto",
        auto_refresh_interval_secs |-> IF auto_refresh THEN 1 ELSE 0,
        show_system_info |-> auto_refresh,
        default_view |-> IF snapshot.ui_mode.some
                         THEN [some |-> TRUE,
                               value |-> DebugLowercase(snapshot.ui_mode.value)]
                         ELSE [some |-> FALSE]]

\* map_preferences_to_ui(snapshot)
MapPreferencesToUi(snapshot) ==
    LET auto_refresh == IF snapshot.auto_refresh.some
                        THEN snapshot.auto_refresh.value ELSE TRUE
    IN [theme |-> IF snapshot.theme.some THEN snapshot.theme.value ELSE "auto",
        auto_refresh_interval_secs |-> IF auto_refresh THEN 1 ELSE 0,
        show_system_info |-> auto_refresh,
        default_view |-> IF snapshot.ui_mode.some
                         THEN [some |-> TRUE,
                               value |-> DebugLowercase(snapshot.ui_mode.value)]
                         ELSE [some |-> FALSE]]

\* a payload that also carries a mode, taken from the default view
MapPreferencesToProtocolWithMode(prefs, t) ==
    [theme |-> [some |-> TRUE, value |-> prefs.theme],
     ui_mode |-> IF prefs.default_view.some THEN [some |-> TRUE, value |-> "Tui"]
                 ELSE [some |-> FALSE],
     auto_refresh |-> [some |-> TRUE,
                       value |-> prefs.auto_refresh_interval_secs > 0],
     updated_at |-> t]

\* map_preferences_to_protocol(prefs), at Utc::now() = t
MapPreferencesToProtocol(prefs, t) ==
    LET auto_refresh == prefs.auto_refresh_interval_secs > 0
    IN [theme |-> [some |-> TRUE, value |-> prefs.theme],
        ui_mode |-> [some |-> FALSE],
        auto_refresh |-> [some |-> TRUE, value |-> auto_refresh],
        updated_at |-> t]

\* the gateway's PUT /v1/preferences/ui: a field the payload leaves unset keeps
\* its stored value
GatewayStore(stored, payload) ==
    [theme |-> IF payload.theme.some THEN payload.theme ELSE stored.theme,
     ui_mode |-> IF payload.ui_mode.some THEN payload.ui_mode ELSE stored.ui_mode,
     auto_refresh |-> IF payload.auto_refresh.some THEN payload.auto_refresh
                      ELSE stored.auto_refresh,
     updated_at |-> payload.updated_at]

\* the gateway's store before anything was saved
InitialPrefs ==
    [theme |-> [some |-> FALSE], ui_mode |-> [some |-> FALSE],
     auto_refresh |-> [some |-> FALSE], updated_at |-> 0]

---------------------------------------------------------------------------
(* The service bundle: four capability implementations, each with the
   transport it holds, the clients and the metrics cache handle *)

Capability(impl, held) == [impl |-> impl, transport |-> held]

\* a remote bundle whose legacy service is the local one
MixedBundle(base) ==
    [state |-> "built",
     preferences_store |->
         Capability("ProtocolPreferencesStore", [some |-> TRUE, value |-> base]),
     coordinator_client |->
         Capability("ProtocolCoordinatorClient", [some |-> TRUE, value |-> base]),
     telemetry_service |->
         Capability("ProtocolTelemetryService", [some |-> TRUE, value |-> base]),
     legacy_cli_service |-> Capability("CliLegacyCliService", [some |-> FALSE]),
     protocol_clients |-> [some |-> TRUE, value |-> base],
     metrics_cache |-> TRUE]

\* the bundle of the protocol feature, built from clients on transport base
RemoteBundle(base) ==
    [state |-> "built",
     preferences_store |->
         Capability("ProtocolPreferencesStore", [some |-> TRUE, value |-> base]),
     coordinator_client |->
         Capability("ProtocolCoordinatorClient", [some |-> TRUE, value |-> base]),
     telemetry_service |->
         Capability("ProtocolTelemetryService", [some |-> TRUE, value |-> base]),
     legacy_cli_service |-> Capability("ProtocolLegacyCliService", [some |-> FALSE]),
     protocol_clients |-> [some |-> TRUE, value |-> base],
     metrics_cache |-> TRUE]

\* the bundle of the tui-cli-services feature
CliBundle ==
    [state |-> "built",
     preferences_store |-> Capability("CliPreferencesStore", [some |-> FALSE]),
     coordinator_client |-> Capability("CliCoordinatorClient", [some |-> FALSE]),
     telemetry_service |-> Capability("CliTelemetryService", [some |-> FALSE]),
     legacy_cli_service |-> Capability("CliLegacyCliService", [some |-> FALSE]),
     protocol_clients |-> [some |-> FALSE],
     metrics_cache |-> FALSE]

NoBundle == [state |-> "none"]
Panicked == [state |-> "panicked"]

NoCall == [op |-> "none"]

\* the client side of a dashboard that default_service_bundle composed from the
\* default base URL with the protocol feature
InitClientVars ==
    /\ feature = "protocol"
    /\ baseUrl = DefaultBaseUrl
    /\ bundle = RemoteBundle(DefaultTransport.value)
    /\ transport = DefaultTransport
    /\ serverPrefs = InitialPrefs
    /\ call = NoCall

---------------------------------------------------------------------------
(* The decoder driven directly, as the unit tests drive it *)

InitCacheVars ==
    /\ cpc = "spawned"
    /\ craw = [present |-> FALSE]
    /\ cmetrics = [some |-> FALSE]
    /\ cache = [some |-> FALSE]
    /\ lockHolder = "none"
    /\ rpc = "idle"
    /\ rval = [some |-> FALSE]
    /\ now = 0
    /\ decoded = <<>>
    /\ published = <<>>
    /\ opens = 0
    /\ rafter = FALSE
    /\ rwaited = 0

InitDecoder ==
    /\ InitNoLog
    /\ InitApp
    /\ input \in SeqsUpTo(DecoderElems, MaxLines)
    /\ lines = input
    /\ buffer = <<>>
    /\ items = <<>>
    /\ InitCacheVars
    /\ InitClientVars

\* how many calls so far reported the end of the sequence
EndCalls == Cardinality({i \in 1..Len(items) : items[i].tag = "None"})

\* one call of read_next_event(&mut lines, &mut buffer)
DecoderNext ==
    /\ EndCalls < MaxEndCalls
    /\ LET r == ReadNextEvent(lines, buffer)
       IN /\ lines' = r.lines
          /\ buffer' = r.buffer
          /\ items' = Append(items, r.item)
    /\ UNCHANGED <<logVars, appVars, clientVars, input, cacheVars>>

NextDecoder == DecoderNext

SpecDecoder == InitDecoder /\ [][NextDecoder]_vars

---------------------------------------------------------------------------
(* Wire and UI metrics, the typed stream stage and the two mappings *)

None_ == [some |-> FALSE]
Some(x) == [some |-> TRUE, value |-> x]

\* dora_protocol::SystemMetrics values carried by the JSON documents "A" and "B".
\* Percentages and load averages are counted in tenths (12.5 is 125).
FrameA == [timestamp |-> 0, cpu_percent |-> 125, memory_percent |-> 420,
           total_memory_bytes |-> 8192, used_memory_bytes |-> 4096,
           load_average |-> Some(<<1, 2, 3>>)]
FrameB == [timestamp |-> 0, cpu_percent |-> 200, memory_percent |-> 500,
           total_memory_bytes |-> 4096, used_memory_bytes |-> 8192,
           load_average |-> None_]

NoFrame == [present |-> FALSE]
NoneFrame == [tag |-> "None", frame |-> NoFrame]
ErrFrame == [tag |-> "Err", frame |-> NoFrame]
OkFrame(f) == [tag |-> "Ok", frame |-> f]

\* whitespace serde_json skips around a document
IsJsonWhitespace(c) == c \in {" ", "\t", "\r", "\n"}

RECURSIVE JsonSkipStart(_)
JsonSkipStart(s) ==
    IF s = <<>> THEN <<>>
    ELSE IF IsJsonWhitespace(Head(s)) THEN JsonSkipStart(Tail(s))
    ELSE s

RECURSIVE JsonSkipEnd(_)
JsonSkipEnd(s) ==
    IF s = <<>> THEN <<>>
    ELSE IF IsJsonWhitespace(s[Len(s)]) THEN JsonSkipEnd(SubSeq(s, 1, Len(s) - 1))
    ELSE s

\* serde_json::from_str::<SystemMetrics>(&payload): the characters "A" and "B" each
\* stand for one complete JSON document of a frame; anything else between the
\* surrounding whitespace (nothing, other text, two documents) is a Deserialize error
ParseMetrics(payload) ==
    LET doc == JsonSkipEnd(JsonSkipStart(payload))
    IN IF doc = <<"A">> THEN OkFrame(FrameA)
       ELSE IF doc = <<"B">> THEN OkFrame(FrameB)
       ELSE ErrFrame

\* SystemMetricsStream::next
MetricsStreamNext(ls, buf) ==
    LET r == ReadNextEvent(ls, buf)
    IN [item |-> IF r.item.tag = "Ok" THEN ParseMetrics(r.item.payload)
                 ELSE IF r.item.tag = "Err" THEN ErrFrame
                 ELSE NoneFrame,
        lines |-> r.lines,
        buffer |-> r.buffer]

\* the subtraction without saturation
PlainSub(a, b) == a - b

\* u64::saturating_sub
SaturatingSub(a, b) == IF b > a THEN 0 ELSE a - b

\* convert_metrics, called at instant t
ConvertMetrics(protocol, t) ==
    [cpu_usage |-> protocol.cpu_percent,
     memory_usage |-> protocol.memory_percent,
     memory |-> [total_bytes |-> protocol.total_memory_bytes,
                 used_bytes |-> protocol.used_memory_bytes,
                 free_bytes |-> SaturatingSub(protocol.total_memory_bytes,
                                              protocol.used_memory_bytes),
                 usage_percent |-> protocol.memory_percent],
     load_average |-> IF protocol.load_average.some
                      THEN Some([one |-> protocol.load_average.value[1],
                                 five |-> protocol.load_average.value[2],
                                 fifteen |-> protocol.load_average.value[3]])
                      ELSE None_,
     last_update |-> Some(t)]

\* a one-shot mapping that subtracts without saturation
MapMetricsToUiPlain(snapshot) ==
    [cpu_usage |-> snapshot.cpu_percent,
     memory_usage |-> snapshot.memory_percent,
     memory |-> [total_bytes |-> snapshot.total_memory_bytes,
                 used_bytes |-> snapshot.used_memory_bytes,
                 free_bytes |-> snapshot.total_memory_bytes
                                    - snapshot.used_memory_bytes,
                 usage_percent |-> snapshot.memory_percent],
     load_average |-> IF snapshot.load_average.some
                      THEN [some |-> TRUE,
                            value |-> [one |-> snapshot.load_average.value[1],
                                       five |-> snapshot.load_average.value[2],
                                       fifteen |-> snapshot.load_average.value[3]]]
                      ELSE [some |-> FALSE],
     last_update |-> [some |-> FALSE]]

\* map_metrics_to_ui: the mapping of the one-shot GET; last_update keeps its
\* default
MapMetricsToUi(snapshot) ==
    [cpu_usage |-> snapshot.cpu_percent,
     memory_usage |-> snapshot.memory_percent,
     memory |-> [total_bytes |-> snapshot.total_memory_bytes,
                 used_bytes |-> snapshot.used_memory_bytes,
                 free_bytes |-> SaturatingSub(snapshot.total_memory_bytes,
                                              snapshot.used_memory_bytes),
                 usage_percent |-> snapshot.memory_percent],
     load_average |-> IF snapshot.load_average.some
                      THEN Some([one |-> snapshot.load_average.value[1],
                                 five |-> snapshot.load_average.value[2],
                                 fifteen |-> snapshot.load_average.value[3]])
                      ELSE None_,
     last_update |-> None_]

---------------------------------------------------------------------------
(* spawn_metrics_stream: the background consumer *)

\* "" | "data: A" | "data: B" | "data: x"
MetricsLineTexts ==
    { <<>>,
      Marker \o <<" ", "A">>,
      Marker \o <<" ", "B">>,
      Marker \o <<" ", "x">> }

MetricsElems == {OkLine(t) : t \in MetricsLineTexts} \cup {IoError}

\* the state right after spawn_metrics_stream returned: an empty slot, a spawned
\* thread that has not run yet
Init ==
    /\ InitNoLog
    /\ InitApp
    /\ input \in SeqsUpTo(MetricsElems, MaxMetricsLines)
    /\ lines = <<>>
    /\ buffer = <<>>
    /\ items = <<>>
    /\ InitCacheVars
    /\ InitClientVars

\* clients.system_metrics_stream() returns Ok(stream): SystemMetricsStream::new
ConsumerOpenOk ==
    /\ cpc = "spawned"
    /\ lines' = input
    /\ buffer' = <<>>
    /\ opens' = opens + 1
    /\ cpc' = "next"
    /\ UNCHANGED <<logVars, appVars, clientVars, input, items, craw, cmetrics, cache, lockHolder, rpc, rval,
                   now, decoded, published, rafter, rwaited>>

\* clients.system_metrics_stream() returns Err: the thread warns and ends
ConsumerOpenErr ==
    /\ cpc = "spawned"
    /\ opens' = opens + 1
    /\ cpc' = "done"
    /\ UNCHANGED <<logVars, appVars, clientVars, input, lines, buffer, items, craw, cmetrics, cache, lockHolder,
                   rpc, rval, now, decoded, published, rafter, rwaited>>

\* mutant: the consumer opens the stream again after an Err item
AfterErrorReconnect == "spawned"

\* where the consumer goes on an Err item: warn!, break
AfterError == "done"

\* where the consumer goes when the iterator is exhausted: the for loop ends
AfterEnd == "done"

\* `for next in stream`: one call of stream.next() and the match on its item
ConsumerNext ==
    /\ cpc = "next"
    /\ LET r == MetricsStreamNext(lines, buffer)
       IN /\ lines' = r.lines
          /\ buffer' = r.buffer
          /\ IF r.item.tag = "Ok"
             THEN /\ craw' = [present |-> TRUE, frame |-> r.item.frame]
                  /\ decoded' = Append(decoded, r.item.frame)
                  /\ cpc' = "convert"
             ELSE /\ UNCHANGED <<craw, decoded>>
                  /\ cpc' = IF r.item.tag = "Err" THEN AfterError ELSE AfterEnd
    /\ UNCHANGED <<logVars, appVars, clientVars, input, items, cmetrics, cache, lockHolder, rpc, rval, now,
                   published, opens, rafter, rwaited>>

\* let metrics = convert_metrics(&raw)
ConsumerConvert ==
    /\ cpc = "convert"
    /\ cmetrics' = Some(ConvertMetrics(craw.frame, now))
    /\ craw' = NoFrame
    /\ cpc' = "locking"
    /\ UNCHANGED <<logVars, appVars, clientVars, input, lines, buffer, items, cache, lockHolder, rpc, rval, now,
                   decoded, published, opens, rafter, rwaited>>

\* cache_clone.lock() returns the guard. (lock() returns Err only for a poisoned
\* mutex, that is after a holder panicked; no holder in this model panics.)
ConsumerLock ==
    /\ cpc = "locking"
    /\ lockHolder = "none"
    /\ lockHolder' = "consumer"
    /\ cpc' = "store"
    /\ UNCHANGED <<logVars, appVars, clientVars, input, lines, buffer, items, craw, cmetrics, cache, rpc, rval,
                   now, decoded, published, opens, rafter, rwaited>>

\* mutant: a snapshot already in the slot is kept
StoredValueKeepFirst(old, new) == IF old.some THEN old ELSE new

\* mutant: the new snapshot is merged into the one in the slot
StoredValueMerge(old, new) ==
    IF old.some /\ new.some
    THEN Some([new.value EXCEPT !.cpu_usage = old.value.cpu_usage])
    ELSE new

\* mutant: a full slot is taken and left empty, only an empty one is filled
StoredValueTake(old, new) == IF old.some THEN None_ ELSE new

\* the value the slot holds after `*guard = Some(metrics)`
StoredValue(old, new) == new

\* *guard = Some(metrics)
ConsumerStore ==
    /\ cpc = "store"
    /\ lockHolder = "consumer"
    /\ cache' = StoredValue(cache, cmetrics)
    /\ published' = Append(published, cache')
    /\ cmetrics' = None_
    /\ cpc' = "unlock"
    /\ rwaited' = IF rpc = "waiting" THEN rwaited + 1 ELSE rwaited
    /\ UNCHANGED <<logVars, appVars, clientVars, input, lines, buffer, items, craw, lockHolder, rpc, rval, now,
                   decoded, opens, rafter>>

\* mutant: the guard outlives the block and is held into the next stream read
GuardKept == "consumer"

\* who holds the mutex once the `if let` block is left: the guard is dropped
GuardAfterStore == "none"

\* end of the `if let Ok(mut guard)` block, back to the loop head
ConsumerUnlock ==
    /\ cpc = "unlock"
    /\ lockHolder' = GuardAfterStore
    /\ cpc' = "next"
    /\ UNCHANGED <<logVars, appVars, clientVars, input, lines, buffer, items, craw, cmetrics, cache, rpc, rval,
                   now, decoded, published, opens, rafter, rwaited>>

\* time passes
Tick ==
    /\ now < MaxNow
    /\ now' = now + 1
    /\ UNCHANGED <<logVars, appVars, clientVars, input, lines, buffer, items, cpc, craw, cmetrics, cache,
                   lockHolder, rpc, rval, decoded, published, opens, rafter, rwaited>>

---------------------------------------------------------------------------
(* A reader of ServiceBundle.metrics_cache: lock, copy the Option, unlock *)

ReaderStart ==
    /\ rpc = "idle"
    /\ rpc' = "waiting"
    /\ rwaited' = 0
    /\ UNCHANGED <<logVars, appVars, clientVars, input, lines, buffer, items, cpc, craw, cmetrics, cache,
                   lockHolder, rval, now, decoded, published, opens, rafter>>

ReaderLock ==
    /\ rpc = "waiting"
    /\ lockHolder = "none"
    /\ lockHolder' = "reader"
    /\ rpc' = "holding"
    /\ UNCHANGED <<logVars, appVars, clientVars, input, lines, buffer, items, cpc, craw, cmetrics, cache, rval,
                   now, decoded, published, opens, rafter, rwaited>>

ReaderCopy ==
    /\ rpc = "holding"
    /\ rval' = cache
    /\ rafter' = (cpc = "done")
    /\ rpc' = "copied"
    /\ UNCHANGED <<logVars, appVars, clientVars, input, lines, buffer, items, cpc, craw, cmetrics, cache,
                   lockHolder, now, decoded, published, opens, rwaited>>

ReaderUnlock ==
    /\ rpc = "copied"
    /\ lockHolder' = "none"
    /\ rpc' = "idle"
    /\ UNCHANGED <<logVars, appVars, clientVars, input, lines, buffer, items, cpc, craw, cmetrics, cache, rval,
                   now, decoded, published, opens, rafter, rwaited>>

Consumer ==
    \/ ConsumerOpenOk
    \/ ConsumerOpenErr
    \/ ConsumerNext
    \/ ConsumerConvert
    \/ ConsumerLock
    \/ ConsumerStore
    \/ ConsumerUnlock

Reader ==
    \/ ReaderStart
    \/ ReaderLock
    \/ ReaderCopy
    \/ ReaderUnlock

Next == Consumer \/ Reader \/ Tick

Spec == Init /\ [][Next]_vars

\* The scheduler runs a thread that can take a step; a mutex that stays free is
\* granted to a waiting thread. Nothing is assumed about the network: the open
\* and the stream read (ConsumerOpenOk, ConsumerOpenErr, ConsumerNext) may never
\* return.
SpecFair ==
    /\ Spec
    /\ WF_vars(ConsumerConvert)
    /\ WF_vars(ConsumerLock)
    /\ WF_vars(ConsumerStore)
    /\ WF_vars(ConsumerUnlock)
    /\ WF_vars(ReaderLock)
    /\ WF_vars(ReaderCopy)
    /\ WF_vars(ReaderUnlock)

---------------------------------------------------------------------------
(* The transport: one blocking request and what the client makes of the
   gateway's answer *)

MaxPathLen == 4
MaxInterval == 2

\* send() failed: no response arrived
Refused == [kind |-> "refused"]
\* a response with its status and body; a body that is well-formed JSON of the
\* type the caller asks for carries that value
Reply(status, body) == [kind |-> "reply", status |-> status, body |-> body]
BadBody == [wellFormed |-> FALSE]
GoodBody(v) == [wellFormed |-> TRUE, value |-> v]

Statuses == {200, 304, 500}

Responses(values) ==
    {Refused} \cup {Reply(st, BadBody) : st \in Statuses}
              \cup {Reply(st, GoodBody(v)) : st \in Statuses, v \in values}

Is2xx(status) == status >= 200 /\ status < 300

\* error_for_status that rejects every status outside 2xx
ErrorForStatusStrict(status) == ~Is2xx(status)

\* Response::error_for_status: an error for a 4xx or 5xx status
ErrorForStatus(status) == status >= 400 /\ status < 600

Request(method, url) == [method |-> method, url |-> url]

\* Transport::get(path) answered by response: the result, the requests sent
\* and whether the body was handed to the deserializer
Get(base, path, response) ==
    LET url == Endpoint(base, path)
    IN IF ~url.ok
       THEN [result |-> Err(url.error), sent |-> <<>>, parsed |-> FALSE]
       ELSE LET sent == <<Request("GET", url.value)>>
            IN IF response.kind = "refused"
               THEN [result |-> Err(Http("request")), sent |-> sent, parsed |-> FALSE]
               ELSE IF ErrorForStatus(response.status)
               THEN [result |-> Err(Http("status")), sent |-> sent, parsed |-> FALSE]
               ELSE IF ~response.body.wellFormed
               THEN [result |-> Err(Http("decode")), sent |-> sent, parsed |-> TRUE]
               ELSE [result |-> Ok(response.body.value), sent |-> sent,
                     parsed |-> TRUE]

\* Transport::put(path, body) answered by response
Put(base, path, body, response) ==
    LET url == Endpoint(base, path)
    IN IF ~url.ok
       THEN [result |-> Err(url.error), sent |-> <<>>]
       ELSE LET sent == <<[method |-> "PUT", url |-> url.value, body |-> body]>>
            IN IF response.kind = "refused"
               THEN [result |-> Err(Http("request")), sent |-> sent]
               ELSE IF ErrorForStatus(response.status)
               THEN [result |-> Err(Http("status")), sent |-> sent]
               ELSE [result |-> Ok("unit"), sent |-> sent]

\* clients that fall back to the default base URL when the configured one is
\* no URL
ProtocolClientsNewFallback(raw) ==
    IF UrlParse(raw).ok THEN NormalizeBaseUrl(raw) ELSE NormalizeBaseUrl(DefaultBaseUrl)

\* ProtocolClients::new(base_url)
ProtocolClientsNew(raw) == NormalizeBaseUrl(raw)

---------------------------------------------------------------------------
(* The remote capabilities *)

\* a capability that hands the client's error through as it is
KeepProtoError(err) == err

\* InterfaceError::from_proto_error(err) = InterfaceError::Message(err.to_string())
FromProtoError(err) == [variant |-> "Message", message |-> err.text]
Unimplemented == [variant |-> "Unimplemented"]

V1Dataflows == <<Slash, "v1", Slash, "dataflows">>
V1TelemetrySystem == <<Slash, "v1", Slash, "telemetry", Slash, "system">>
V1PreferencesUi == <<Slash, "v1", Slash, "preferences", Slash, "ui">>

\* format_status(status)
FormatStatus(status) ==
    CASE status = "Pending" -> "pending"
      [] status = "Running" -> "running"
      [] status = "Stopped" -> "stopped"
      [] status = "Destroyed" -> "destroyed"
      [] status = "Failed" -> "failed"
      [] status = "Unknown" -> "unknown"

\* a kind mapping with a fallback arm for every kind but Runtime
FormatNodeKindFallback(kind) ==
    CASE kind = "Runtime" -> "runtime"
      [] OTHER -> "custom"

\* format_node_kind(kind)
FormatNodeKind(kind) ==
    CASE kind = "Runtime" -> "runtime"
      [] kind = "Operator" -> "operator"
      [] kind = "Custom" -> "custom"

\* format_node_status(status)
FormatNodeStatus(status) ==
    CASE status = "Initializing" -> "initializing"
      [] status = "Running" -> "running"
      [] status = "Stopped" -> "stopped"
      [] status = "Failed" -> "failed"
      [] status = "Unknown" -> "unknown"

\* the variants of NodeSource
LocalSource(path) == [variant |-> "Local", path |-> path]
GitSource(repo, rev) == [variant |-> "Git", repo |-> repo, rev |-> rev]
WasmSource(module) == [variant |-> "Wasm", module |-> module]
PythonSource(module, environment) ==
    [variant |-> "Python", module |-> module, environment |-> environment]
UnknownSource == [variant |-> "Unknown"]

\* a provenance text that leaves the revision and the environment out
DescribeNodeSourceShort(source) ==
    CASE source.variant = "Local" -> source.path
      [] source.variant = "Git" -> [some |-> TRUE, value |-> source.repo]
      [] source.variant = "Wasm" -> [some |-> TRUE, value |-> source.module]
      [] source.variant = "Python" -> [some |-> TRUE, value |-> source.module]
      [] source.variant = "Unknown" -> [some |-> FALSE]

\* describe_node_source(source); format! writes its literal text between the
\* arguments
DescribeNodeSource(source) ==
    CASE source.variant = "Local" -> source.path
      [] source.variant = "Git" ->
            Some(IF source.rev.some
                 THEN source.repo \o <<" ", "(">> \o source.rev.value \o <<")">>
                 ELSE source.repo)
      [] source.variant = "Wasm" -> Some(source.module)
      [] source.variant = "Python" ->
            IF source.environment.some
            THEN Some(source.module \o <<" ", "(", "e", "n", "v", ":", " ">>
                          \o source.environment.value \o <<")">>)
            ELSE Some(source.module)
      [] source.variant = "Unknown" -> None_

\* map_node_to_ui(node)
MapNodeToUi(node) ==
    [id |-> node.id,
     name |-> IF node.name.some THEN node.name.value ELSE <<>>,
     status |-> FormatNodeStatus(node.status),
     kind |-> FormatNodeKind(node.kind),
     description |-> node.description,
     inputs |-> node.inputs,
     outputs |-> node.outputs,
     source |-> DescribeNodeSource(node.source),
     details |-> None_]

\* map_summary_to_ui(summary)
MapSummaryToUi(summary) ==
    [id |-> summary.id,
     name |-> IF summary.name.some THEN summary.name.value ELSE summary.id,
     status |-> FormatStatus(summary.status),
     nodes |-> [i \in 1..Len(summary.nodes) |-> MapNodeToUi(summary.nodes[i])]]

MapErr(r) == IF r.result.ok THEN r.result ELSE Err(FromProtoError(r.result.error))

\* ProtocolCoordinatorClient::list_dataflows
ListDataflows(base, response) ==
    LET r == Get(base, V1Dataflows, response)
    IN [result |-> IF r.result.ok
                   THEN Ok([i \in 1..Len(r.result.value) |->
                               MapSummaryToUi(r.result.value[i])])
                   ELSE MapErr(r),
        sent |-> r.sent]

\* ProtocolTelemetryService::latest_metrics
LatestMetrics(base, response) ==
    LET r == Get(base, V1TelemetrySystem, response)
    IN [result |-> IF r.result.ok THEN Ok(MapMetricsToUi(r.result.value))
                   ELSE MapErr(r),
        sent |-> r.sent]

\* ProtocolPreferencesStore::load
PreferencesLoad(base, response) ==
    LET r == Get(base, V1PreferencesUi, response)
    IN [result |-> IF r.result.ok THEN Ok(MapPreferencesToUi(r.result.value))
                   ELSE MapErr(r),
        sent |-> r.sent]

\* ProtocolPreferencesStore::save
PreferencesSave(base, prefs, t, response) ==
    LET payload == MapPreferencesToProtocol(prefs, t)
        r == Put(base, V1PreferencesUi, payload, response)
    IN [result |-> MapErr(r), sent |-> r.sent]

\* an execute that forwards the command to the gateway
LegacyExecuteForward(argv, working_dir) ==
    [result |-> Ok("unit"), sent |-> <<[method |-> "POST", body |-> argv]>>]

\* ProtocolLegacyCliService::execute
LegacyExecute(argv, working_dir) == [result |-> Err(Unimplemented), sent |-> <<>>]

\* the gateway after a PUT of the preferences: it stores what a request it
\* answered with a 2xx status carried
GatewayAfterPut(stored, sent, response) ==
    IF sent # <<>> /\ response.kind = "reply" /\ Is2xx(response.status)
    THEN GatewayStore(stored, sent[1].body)
    ELSE stored

---------------------------------------------------------------------------
(* The transport driven directly: clients built from a base URL, then
   endpoint and get applied to request paths *)

\* no consumer thread exists
InitNoConsumer ==
    /\ cpc = "unspawned"
    /\ craw = [present |-> FALSE]
    /\ cmetrics = None_
    /\ cache = None_
    /\ lockHolder = "none"
    /\ rpc = "idle"
    /\ rval = None_
    /\ now = 0
    /\ decoded = <<>>
    /\ published = <<>>
    /\ opens = 0
    /\ rafter = FALSE
    /\ rwaited = 0

HostH == <<"h">>

\* http://127.0.0.1:7267 | http://h/a | http://h/a/ | http://h/a/b | no URL
BaseUrls ==
    { DefaultBaseUrl,
      RawUrl(HostH, <<Slash, "a">>),
      RawUrl(HostH, <<Slash, "a", Slash>>),
      RawUrl(HostH, <<Slash, "a", Slash, "b">>),
      MalformedUrl }

\* the authority a reference names after "//", if it names one
NamedHost(reference) == Split(SkipSlashes(reference))[1]

\* the request paths: texts over "/", "." and a name; a path that names a host
\* names one with a letter in it
RequestPaths ==
    { p \in SeqsUpTo({Slash, Dot, "a"}, MaxPathLen) :
        (Len(p) >= 3 /\ p[1] = Slash /\ p[2] = Slash /\ p[3] = Slash)
            => (NamedHost(p) = <<>> \/ \E i \in 1..Len(NamedHost(p)) :
                                          NamedHost(p)[i] = "a") }

\* the inputs of one run: a base URL, a request path and the gateway's answer
InitTransport ==
    /\ InitNoLog
    /\ InitApp
    /\ input = <<>>
    /\ lines = <<>>
    /\ buffer = <<>>
    /\ items = <<>>
    /\ InitNoConsumer
    /\ feature = "protocol"
    /\ baseUrl \in BaseUrls
    /\ bundle = NoBundle
    /\ transport = None_
    /\ serverPrefs = InitialPrefs
    /\ \E p \in RequestPaths, response \in Responses({"value"}) :
          call = [op |-> "none", arg |-> p, response |-> response]

\* ProtocolClients::new(base_url)
ClientsNew ==
    /\ call.op = "none"
    /\ LET r == ProtocolClientsNew(baseUrl)
       IN /\ call' = [op |-> "new", arg |-> call.arg, response |-> call.response,
                      result |-> r]
          /\ transport' = IF r.ok THEN Some(r.value) ELSE None_
    /\ UNCHANGED <<logVars, appVars, decoderVars, cacheVars, feature, baseUrl, bundle, serverPrefs>>

\* transport.endpoint(path)
TransportEndpoint ==
    /\ transport.some
    /\ call' = [op |-> "endpoint", arg |-> call.arg, response |-> call.response,
                result |-> Endpoint(transport.value, call.arg)]
    /\ UNCHANGED <<logVars, appVars, decoderVars, cacheVars, feature, baseUrl, bundle, transport,
                   serverPrefs>>

\* transport.get::<T>(path), answered by the gateway
TransportGet ==
    /\ transport.some
    /\ LET r == Get(transport.value, call.arg, call.response)
       IN call' = [op |-> "get", arg |-> call.arg, response |-> call.response,
                   result |-> r.result, sent |-> r.sent, parsed |-> r.parsed]
    /\ UNCHANGED <<logVars, appVars, decoderVars, cacheVars, feature, baseUrl, bundle, transport,
                   serverPrefs>>

NextTransport == ClientsNew \/ TransportEndpoint \/ TransportGet

SpecTransport == InitTransport /\ [][NextTransport]_vars

---------------------------------------------------------------------------
(* The composed dashboard: default_service_bundle, the consumer it spawns and
   the capability calls made through the bundle *)

Features == {"protocol", "tui-cli-services"}

\* http://127.0.0.1:7267 | no URL
ClientBaseUrls == {DefaultBaseUrl, MalformedUrl}

\* the bodies of the metrics stream: one frame, ended by the end of the stream
ClientStreams ==
    { <<OkLine(Marker \o <<" ", "A">>)>>, <<OkLine(Marker \o <<" ", "B">>)>> }

\* what the gateway may have stored
StoredPrefs ==
    { [InitialPrefs EXCEPT !.auto_refresh = a, !.ui_mode = m] :
        a \in {None_, Some(TRUE), Some(FALSE)}, m \in {None_, Some("Tui")} }

\* the UI snapshots handed to save
UiPrefs ==
    { [theme |-> "dark", auto_refresh_interval_secs |-> n,
       show_system_info |-> o.show, default_view |-> o.view] :
        n \in 0..MaxInterval,
        o \in { [show |-> FALSE, view |-> None_],
                [show |-> TRUE, view |-> Some("logs")] } }

\* the gateway's answers to a capability call
Answers(values) ==
    {Refused, Reply(500, BadBody), Reply(200, BadBody)}
        \cup {Reply(200, GoodBody(v)) : v \in values}

DataflowLists ==
    { <<>>,
      <<[id |-> "df1", name |-> None_, status |-> "Running", nodes |-> <<>>]>> }

MetricsSnapshots == {FrameA, FrameB}

Argvs == {<<>>, <<"ps">>, <<"start", "x">>}
WorkingDirs == {"/", "/tmp"}

InitClient ==
    /\ InitNoLog
    /\ InitApp
    /\ input \in ClientStreams
    /\ lines = <<>>
    /\ buffer = <<>>
    /\ items = <<>>
    /\ InitNoConsumer
    /\ feature \in Features
    /\ baseUrl \in ClientBaseUrls
    /\ bundle = NoBundle
    /\ transport = None_
    /\ serverPrefs \in StoredPrefs
    /\ call = NoCall

\* mutant: the stream is opened while the bundle is composed, before the thread
\* is spawned
DefaultServiceBundleEager ==
    /\ bundle = NoBundle
    /\ IF feature = "protocol"
       THEN LET clients == ProtocolClientsNew(baseUrl)
            IN IF clients.ok
               THEN /\ transport' = Some(clients.value)
                    /\ cpc' = "next"
                    /\ opens' = opens + 1
                    /\ lines' = input
                    /\ bundle' = RemoteBundle(clients.value)
               ELSE /\ bundle' = Panicked
                    /\ UNCHANGED <<transport, cpc, opens, lines>>
       ELSE /\ bundle' = CliBundle
            /\ UNCHANGED <<transport, cpc, opens, lines>>
    /\ UNCHANGED <<logVars, appVars, input, buffer, items, craw, cmetrics, cache, lockHolder, rpc, rval,
                   now, decoded, published, rafter, rwaited, feature, baseUrl,
                   serverPrefs, call>>

\* default_service_bundle(): the local bundle, or clients built from the base
\* URL (a panic if that fails), the consumer thread and the remote bundle
DefaultServiceBundle ==
    /\ bundle = NoBundle
    /\ IF feature = "protocol"
       THEN LET clients == ProtocolClientsNew(baseUrl)
            IN IF clients.ok
               THEN /\ transport' = Some(clients.value)
                    /\ cpc' = "spawned"
                    /\ bundle' = RemoteBundle(clients.value)
               ELSE /\ bundle' = Panicked
                    /\ UNCHANGED <<transport, cpc>>
       ELSE /\ bundle' = CliBundle
            /\ UNCHANGED <<transport, cpc>>
    /\ UNCHANGED <<logVars, appVars, decoderVars, craw, cmetrics, cache, lockHolder, rpc, rval, now,
                   decoded, published, opens, rafter, rwaited, feature, baseUrl,
                   serverPrefs, call>>

\* the bundle holds the named remote implementation
Holds(field, impl) ==
    /\ bundle.state = "built"
    /\ bundle[field].impl = impl

\* bundle.coordinator_client.list_dataflows()
CallListDataflows ==
    /\ Holds("coordinator_client", "ProtocolCoordinatorClient")
    /\ \E response \in Answers(DataflowLists) :
          LET r == ListDataflows(bundle.coordinator_client.transport.value, response)
          IN call' = [op |-> "list_dataflows", response |-> response,
                      result |-> r.result, sent |-> r.sent]
    /\ UNCHANGED <<logVars, appVars, decoderVars, cacheVars, feature, baseUrl, bundle, transport,
                   serverPrefs>>

\* bundle.telemetry_service.latest_metrics()
CallLatestMetrics ==
    /\ Holds("telemetry_service", "ProtocolTelemetryService")
    /\ \E response \in Answers(MetricsSnapshots) :
          LET r == LatestMetrics(bundle.telemetry_service.transport.value, response)
          IN call' = [op |-> "latest_metrics", response |-> response,
                      result |-> r.result, sent |-> r.sent]
    /\ UNCHANGED <<logVars, appVars, decoderVars, cacheVars, feature, baseUrl, bundle, transport,
                   serverPrefs>>

\* bundle.preferences_store.load(): a well-formed body is the stored snapshot
CallPreferencesLoad ==
    /\ Holds("preferences_store", "ProtocolPreferencesStore")
    /\ \E response \in Answers({serverPrefs}) :
          LET r == PreferencesLoad(bundle.preferences_store.transport.value, response)
          IN call' = [op |-> "load", response |-> response,
                      result |-> r.result, sent |-> r.sent]
    /\ UNCHANGED <<logVars, appVars, decoderVars, cacheVars, feature, baseUrl, bundle, transport,
                   serverPrefs>>

\* bundle.preferences_store.save(prefs)
CallPreferencesSave ==
    /\ Holds("preferences_store", "ProtocolPreferencesStore")
    /\ \E prefs \in UiPrefs, response \in Answers({}) :
          LET r == PreferencesSave(bundle.preferences_store.transport.value,
                                   prefs, now, response)
          IN /\ call' = [op |-> "save", arg |-> prefs, response |-> response,
                         result |-> r.result, sent |-> r.sent]
             /\ serverPrefs' = GatewayAfterPut(serverPrefs, r.sent, response)
    /\ UNCHANGED <<logVars, appVars, decoderVars, cacheVars, feature, baseUrl, bundle, transport>>

\* bundle.legacy_cli_service.execute(argv, working_dir)
CallLegacyExecute ==
    /\ Holds("legacy_cli_service", "ProtocolLegacyCliService")
    /\ \E argv \in Argvs, working_dir \in WorkingDirs :
          LET r == LegacyExecute(argv, working_dir)
          IN call' = [op |-> "execute", arg |-> <<argv, working_dir>>,
                      result |-> r.result, sent |-> r.sent]
    /\ UNCHANGED <<logVars, appVars, decoderVars, cacheVars, feature, baseUrl, bundle, transport,
                   serverPrefs>>

Capabilities ==
    \/ CallListDataflows
    \/ CallLatestMetrics
    \/ CallPreferencesLoad
    \/ CallPreferencesSave
    \/ CallLegacyExecute

NextClient == DefaultServiceBundle \/ Consumer \/ Capabilities

SpecClient == InitClient /\ [][NextClient]_vars

---------------------------------------------------------------------------
(* The coordinator client against a gateway on the loopback interface, under
   a proxy environment *)

\* a client that takes its proxies from the environment
SystemProxyClient == [proxy |-> "environment"]

\* Client::builder().no_proxy().build()
HttpClient == [proxy |-> "none"]

\* the gateway's address and the address the proxy variables name, where
\* nothing listens
ServerAuthority == <<"127.0.0.1:4000">>
ProxyAuthority == <<"127.0.0.1:9">>

ProxyEnvs ==
    { [HTTP_PROXY |-> h, HTTPS_PROXY |-> t, ALL_PROXY |-> a] :
        h \in {None_, Some(ProxyAuthority)}, t \in {None_, Some(ProxyAuthority)},
        a \in {None_, Some(ProxyAuthority)} }

\* the proxy a client takes for a request to an http URL
ProxyFor(client, env) ==
    IF client.proxy = "none" THEN None_
    ELSE IF env.HTTP_PROXY.some THEN env.HTTP_PROXY ELSE env.ALL_PROXY

\* the address a client connects to for url
Contacted(client, env, url) ==
    IF ProxyFor(client, env).some THEN ProxyFor(client, env).value
    ELSE url.authority

\* client.get(url).send(): the gateway answers, no other address accepts the
\* connection
ClientSend(client, env, url, answer) ==
    IF Contacted(client, env, url) = ServerAuthority THEN answer ELSE Refused

DataflowStatuses ==
    {"Pending", "Running", "Stopped", "Destroyed", "Failed", "Unknown"}
NodeStatuses == {"Initializing", "Running", "Stopped", "Failed", "Unknown"}
NodeKinds == {"Runtime", "Operator", "Custom"}

NodeSources ==
    { LocalSource(None_), LocalSource(Some(<<"p">>)), LocalSource(Some(<<>>)),
      GitSource(<<"r">>, None_), GitSource(<<"r">>, Some(<<"v">>)),
      WasmSource(<<"m">>),
      PythonSource(<<"m">>, None_), PythonSource(<<"m">>, Some(<<"e">>)),
      UnknownSource }

WireNodes ==
    { [id |-> "n1", name |-> None_, status |-> st, kind |-> k,
       description |-> None_, inputs |-> <<>>, outputs |-> <<"out">>,
       source |-> src] :
        st \in NodeStatuses, k \in NodeKinds, src \in NodeSources }

WireSummaries ==
    { [id |-> "df1", name |-> n, status |-> st, updated_at |-> "t0",
       nodes |-> ns] :
        n \in {None_, Some("demo")}, st \in DataflowStatuses,
        ns \in {<<>>} \cup {<<node>> : node \in WireNodes} }

\* the gateway's answers to GET /v1/dataflows
GatewayAnswers ==
    {Reply(500, BadBody), Reply(200, GoodBody(<<>>))}
        \cup {Reply(200, GoodBody(<<summary>>)) : summary \in WireSummaries}

\* the inputs of one run: the proxy variables and the gateway's answer
InitCoordinator ==
    /\ InitNoLog
    /\ InitApp
    /\ input = <<>>
    /\ lines = <<>>
    /\ buffer = <<>>
    /\ items = <<>>
    /\ InitNoConsumer
    /\ feature = "protocol"
    /\ baseUrl = RawUrl(ServerAuthority, <<>>)
    /\ bundle = NoBundle
    /\ transport = None_
    /\ serverPrefs = InitialPrefs
    /\ \E env \in ProxyEnvs, answer \in GatewayAnswers :
          call = [op |-> "none", arg |-> env, response |-> answer]

\* clients.coordinator_client().list_dataflows()
CoordinatorListDataflows ==
    /\ transport.some
    /\ call.op = "new"
    /\ LET url == Endpoint(transport.value, V1Dataflows).value
           answer == ClientSend(HttpClient, call.arg, url, call.response)
           r == ListDataflows(transport.value, answer)
       IN call' = [op |-> "list_dataflows", arg |-> call.arg,
                   response |-> call.response,
                   contacted |-> Contacted(HttpClient, call.arg, url),
                   result |-> r.result, sent |-> r.sent]
    /\ UNCHANGED <<logVars, appVars, decoderVars, cacheVars, feature, baseUrl, bundle, transport,
                   serverPrefs>>

NextCoordinator == ClientsNew \/ CoordinatorListDataflows

SpecCoordinator == InitCoordinator /\ [][NextCoordinator]_vars

---------------------------------------------------------------------------
(* The view navigation of the dashboard application: DoraApp keeps the view
   on display and a stack of the views to return to *)

MaxPushes == 4

ViewTypes == {"Dashboard", "DataflowManager", "SystemMonitor", "Help"}

\* a pop that returns to the oldest view of the stack
PopViewOldest(current, stack) ==
    IF stack = <<>>
    THEN [current |-> current, stack |-> stack, popped |-> FALSE]
    ELSE [current |-> Head(stack), stack |-> Tail(stack), popped |-> TRUE]

\* app.pop_view(): the view on display and the stack after the call
PopViewResult(current, stack) ==
    IF stack = <<>>
    THEN [current |-> current, stack |-> stack, popped |-> FALSE]
    ELSE [current |-> stack[Len(stack)],
          stack |-> SubSeq(stack, 1, Len(stack) - 1), popped |-> TRUE]

\* no transport, no bundle and no worker: the application alone
InitAppAlone ==
    /\ input = <<>>
    /\ lines = <<>>
    /\ buffer = <<>>
    /\ items = <<>>
    /\ InitNoConsumer
    /\ InitNoLog
    /\ InitApp
    /\ feature = "protocol"
    /\ baseUrl = DefaultBaseUrl
    /\ bundle = NoBundle
    /\ transport = None_
    /\ serverPrefs = InitialPrefs
    /\ call = NoCall

\* app.push_view(v)
PushView ==
    /\ pushes < MaxPushes
    /\ \E v \in ViewTypes :
          /\ view_stack' = Append(view_stack, current_view)
          /\ current_view' = v
          /\ call' = [op |-> "push_view", arg |-> v]
    /\ pushes' = pushes + 1
    /\ UNCHANGED <<logVars, decoderVars, cacheVars, feature, baseUrl, bundle,
                   transport, serverPrefs, pops>>

\* app.pop_view()
PopView ==
    /\ LET r == PopViewResult(current_view, view_stack)
       IN /\ current_view' = r.current
          /\ view_stack' = r.stack
          /\ pops' = IF r.popped THEN pops + 1 ELSE pops
    /\ call' = [op |-> "pop_view"]
    /\ UNCHANGED <<logVars, decoderVars, cacheVars, feature, baseUrl, bundle,
                   transport, serverPrefs, pushes>>

NextApp == PushView \/ PopView

SpecApp == InitAppAlone /\ [][NextApp]_vars

---------------------------------------------------------------------------
(* The log subscription: spawn_protocol_log_stream, the worker it starts and
   the holder of the receiver it returns *)

MaxLogLines == 5

\* two log events; "X" and "Y" each stand for the JSON document of one
LogX == [level |-> "INFO", node |-> None_, line |-> "x"]
LogY == [level |-> "WARN", node |-> Some("n1"), line |-> "y"]

\* serde_json::from_str::<LogEvent>(&payload)
ParseLog(payload) ==
    LET doc == JsonSkipEnd(JsonSkipStart(payload))
    IN IF doc = <<"X">> THEN Ok(LogX)
       ELSE IF doc = <<"Y">> THEN Ok(LogY)
       ELSE Err(Deserialize)

\* LogStream::next
LogStreamNext(ls, buf) ==
    LET r == ReadNextEvent(ls, buf)
    IN [item |-> IF r.item.tag = "Ok"
                 THEN IF ParseLog(r.item.payload).ok
                      THEN [tag |-> "Ok", event |-> ParseLog(r.item.payload).value]
                      ELSE [tag |-> "Err"]
                 ELSE [tag |-> r.item.tag],
        lines |-> r.lines,
        buffer |-> r.buffer]

\* Transport::get_stream(path) answered by response
GetStream(base, path, response) ==
    LET url == Endpoint(base, path)
    IN IF ~url.ok THEN Err(url.error)
       ELSE IF response.kind = "refused" THEN Err(Http("request"))
       ELSE IF ErrorForStatus(response.status) THEN Err(Http("status"))
       ELSE Ok(response.body)

\* format!("/v1/logs/{dataflow_id}/stream")
V1LogsStream(id) == <<Slash, "v1", Slash, "logs", Slash, id, Slash, "stream">>

DataflowId == "df1"

\* a channel that hands the newest event out first
ChannelSendFront(queue, event) == <<event>> \o queue

\* tx.send(event) on a channel with a live receiver
ChannelSend(queue, event) == Append(queue, event)

\* a subscription that starts its worker and returns a receiver although the
\* stream could not be opened
OpenFailureSpawns == [pc |-> "next", rx |-> "held", threads |-> 1]

\* the Err arm of spawn_protocol_log_stream: error!, None
OpenFailure == [pc |-> "failed", rx |-> "none", threads |-> 0]

\* match clients.log_stream(&dataflow_id): on Ok the channel is made, the
\* worker is spawned and Some(rx) returned
SpawnProtocolLogStream ==
    /\ lpc = "idle"
    /\ transport.some
    /\ lopens' = lopens + 1
    /\ LET r == GetStream(transport.value, V1LogsStream(DataflowId), lresponse)
       IN IF r.ok
          THEN /\ llines' = r.value
               /\ lpc' = "next"
               /\ rx' = "held"
               /\ lthreads' = lthreads + 1
          ELSE /\ llines' = llines
               /\ lpc' = OpenFailure.pc
               /\ rx' = OpenFailure.rx
               /\ lthreads' = lthreads + OpenFailure.threads
    /\ lbuffer' = <<>>
    /\ chan' = <<>>
    /\ UNCHANGED <<appVars, decoderVars, cacheVars, clientVars, lresponse,
                   received, levents>>

\* lines.next() blocks: the response is still open and every line it has
\* delivered is consumed before the event is complete (a line appended to ls
\* would be read by this call)
ReadBlocks(ends, ls, buf) ==
    ~ends /\ ReadNextEvent(ls \o <<IoError>>, buf).lines = <<>>

\* `for item in stream`: one call of stream.next(), once it returns, and the
\* match on its item
LogWorkerNext ==
    /\ lpc = "next"
    /\ ~ReadBlocks(lresponse.ends, llines, lbuffer)
    /\ LET r == LogStreamNext(llines, lbuffer)
       IN /\ llines' = r.lines
          /\ lbuffer' = r.buffer
          /\ IF r.item.tag = "Ok"
             THEN /\ levents' = Append(levents, r.item.event)
                  /\ lpc' = "send"
             ELSE /\ levents' = levents
                  /\ lpc' = "done"
    /\ UNCHANGED <<appVars, decoderVars, cacheVars, clientVars, lresponse, chan,
                   rx, received, lopens, lthreads>>

\* a worker that goes on reading when the send fails
AfterSendGoOn(receiver) == "next"

\* if tx.send(event).is_err() { break }: where the worker goes after the send
AfterSend(receiver) == IF receiver = "dropped" THEN "done" ELSE "next"

\* tx.send(event) and the check of its result
LogWorkerSend ==
    /\ lpc = "send"
    /\ chan' = IF rx = "dropped" THEN chan
               ELSE ChannelSend(chan, levents[Len(levents)])
    /\ lpc' = AfterSend(rx)
    /\ UNCHANGED <<appVars, decoderVars, cacheVars, clientVars, lresponse,
                   llines, lbuffer, rx, received, levents, lopens, lthreads>>

\* rx.recv() / rx.try_recv() returning an event
ReceiverRecv ==
    /\ rx = "held"
    /\ chan # <<>>
    /\ received' = Append(received, Head(chan))
    /\ chan' = Tail(chan)
    /\ UNCHANGED <<appVars, decoderVars, cacheVars, clientVars, lresponse,
                   llines, lbuffer, lpc, rx, levents, lopens, lthreads>>

\* the holder drops the receiver: the events still in the channel are
\* discarded
ReceiverDrop ==
    /\ rx = "held"
    /\ rx' = "dropped"
    /\ chan' = <<>>
    /\ UNCHANGED <<appVars, decoderVars, cacheVars, clientVars, lresponse,
                   llines, lbuffer, lpc, received, levents, lopens, lthreads>>

LogSubscription ==
    \/ SpawnProtocolLogStream
    \/ LogWorkerNext
    \/ LogWorkerSend
    \/ ReceiverRecv
    \/ ReceiverDrop

LogElems ==
    { OkLine(Marker \o <<" ", "X">>), OkLine(Marker \o <<" ", "Y">>),
      OkLine(<<>>), IoError }

\* a 200 answer whose body delivers the lines of body and then ends, or stays
\* open without delivering more
StreamReply(body, ends) ==
    [kind |-> "reply", status |-> 200, body |-> body, ends |-> ends]

\* the gateway's answers to the log stream request
LogResponses ==
    {Refused, Reply(500, <<>>)}
        \cup {StreamReply(body, ends) :
                 body \in SeqsUpTo(LogElems, MaxLogLines), ends \in BOOLEAN}

\* clients exist for the default base URL; the answer to the log stream
\* request is the input of the run
InitLog ==
    /\ input = <<>>
    /\ lines = <<>>
    /\ buffer = <<>>
    /\ items = <<>>
    /\ InitNoConsumer
    /\ InitApp
    /\ feature = "protocol"
    /\ baseUrl = DefaultBaseUrl
    /\ bundle = NoBundle
    /\ transport = DefaultTransport
    /\ serverPrefs = InitialPrefs
    /\ call = NoCall
    /\ lresponse \in LogResponses
    /\ llines = <<>>
    /\ lbuffer = <<>>
    /\ lpc = "idle"
    /\ chan = <<>>
    /\ rx = "none"
    /\ received = <<>>
    /\ levents = <<>>
    /\ lopens = 0
    /\ lthreads = 0

NextLog == LogSubscription

SpecLog == InitLog /\ [][NextLog]_vars

\* the answers to the log stream request when both subscriptions run
FewLogResponses ==
    { Refused,
      StreamReply(<<OkLine(Marker \o <<" ", "X">>)>>, TRUE),
      StreamReply(<<OkLine(Marker \o <<" ", "X">>), OkLine(<<>>),
                    OkLine(Marker \o <<" ", "Y">>)>>, TRUE) }

\* a dashboard built with the protocol feature that composes its bundle and
\* subscribes to the logs of one dataflow
InitSubscriptions ==
    /\ input \in ClientStreams
    /\ lines = <<>>
    /\ buffer = <<>>
    /\ items = <<>>
    /\ InitNoConsumer
    /\ InitApp
    /\ feature = "protocol"
    /\ baseUrl = DefaultBaseUrl
    /\ bundle = NoBundle
    /\ transport = None_
    /\ serverPrefs = InitialPrefs
    /\ call = NoCall
    /\ lresponse \in FewLogResponses
    /\ llines = <<>>
    /\ lbuffer = <<>>
    /\ lpc = "idle"
    /\ chan = <<>>
    /\ rx = "none"
    /\ received = <<>>
    /\ levents = <<>>
    /\ lopens = 0
    /\ lthreads = 0

NextSubscriptions == DefaultServiceBundle \/ Consumer \/ LogSubscription

SpecSubscriptions == InitSubscriptions /\ [][NextSubscriptions]_vars

---------------------------------------------------------------------------
(* The two metrics mappings applied to one wire snapshot *)

\* the wire snapshots: percentages in tenths, sizes in bytes
WireMetrics ==
    { [timestamp |-> ts, cpu_percent |-> cpu, memory_percent |-> mem,
       total_memory_bytes |-> total, used_memory_bytes |-> used,
       load_average |-> load] :
        ts \in {0, 1}, cpu \in {0, 125}, mem \in {0, 420},
        total \in {0, 4096, 8192}, used \in {0, 4096, 8192},
        load \in {None_, Some(<<1, 2, 3>>)} }

InitMetricsMapping ==
    /\ input = <<>>
    /\ lines = <<>>
    /\ buffer = <<>>
    /\ items = <<>>
    /\ InitNoConsumer
    /\ InitNoLog
    /\ InitApp
    /\ feature = "protocol"
    /\ baseUrl = DefaultBaseUrl
    /\ bundle = NoBundle
    /\ transport = None_
    /\ serverPrefs = InitialPrefs
    /\ \E snapshot \in WireMetrics :
          call = [op |-> "none", arg |-> snapshot, streaming |-> None_,
                  oneshot |-> None_]

\* convert_metrics(&raw), at the instant the clock shows
ApplyConvertMetrics ==
    /\ ~call.streaming.some
    /\ call' = [call EXCEPT !.op = "convert_metrics",
                            !.streaming = Some(ConvertMetrics(call.arg, now))]
    /\ UNCHANGED <<logVars, appVars, decoderVars, cacheVars, feature, baseUrl,
                   bundle, transport, serverPrefs>>

\* map_metrics_to_ui(snapshot)
ApplyMapMetricsToUi ==
    /\ ~call.oneshot.some
    /\ call' = [call EXCEPT !.op = "map_metrics_to_ui",
                            !.oneshot = Some(MapMetricsToUi(call.arg))]
    /\ UNCHANGED <<logVars, appVars, decoderVars, cacheVars, feature, baseUrl,
                   bundle, transport, serverPrefs>>

NextMetricsMapping == Tick \/ ApplyConvertMetrics \/ ApplyMapMetricsToUi

SpecMetricsMapping == InitMetricsMapping /\ [][NextMetricsMapping]_vars

---------------------------------------------------------------------------
(* Claims about the metrics streaming cache *)

Last(s) == s[Len(s)]
Front(s) == SubSeq(s, 1, Len(s) - 1)

Instants == 0..MaxNow

\* v is the UI mapping of frame f, converted at some instant
IsMappingOf(v, f) == \E t \in Instants : v = ConvertMetrics(f, t)

\* the frames whose loop iteration the consumer has finished: while the consumer
\* is between decoding a frame and storing it, that frame is still being consumed
Consumed ==
    IF cpc \in {"convert", "locking", "store"} THEN Front(decoded) ELSE decoded

\* C1: once the consumer has consumed frames f1..fn (n >= 1), the slot holds the UI
\* mapping of fn, the most recent one, and a read returns exactly what the slot
\* holds: never the mapping of an earlier frame, never a combination of frames.
C1_LastWriteWins ==
    /\ Consumed # <<>> =>
          /\ cache.some
          /\ IsMappingOf(cache.value, Last(Consumed))
    /\ rpc = "copied" => rval = cache

\* frames with cpu_percent 12.5 then 20.0 were consumed, the stream has ended, and
\* a read taken afterwards returned 20.0
C1_Witness ==
    /\ decoded = <<FrameA, FrameB>>
    /\ cpc = "done"
    /\ rpc = "copied"
    /\ rafter
    /\ rval.some
    /\ rval.value.cpu_usage = 200

LastPublished == IF published = <<>> THEN None_ ELSE Last(published)

\* C2: an error item or the end of the stream ends the consumer for good: from
\* then on it never opens the stream again and never writes the slot, and every
\* read returns the last snapshot published before it ended (the empty slot if
\* none was published).
C2_FailStop ==
    /\ [](opens <= 1)
    /\ [][ /\ (cpc = "next" /\ cpc' # "next") =>
                 IF MetricsStreamNext(lines, buffer).item.tag = "Ok"
                 THEN cpc' = "convert"
                 ELSE cpc' = "done"
           /\ cpc = "done" =>
                 /\ cpc' = "done"
                 /\ opens' = opens
                 /\ cache' = cache
                 /\ published' = published
                 /\ (rpc = "holding" /\ rpc' = "copied") => rval' = LastPublished
         ]_vars

\* the consumer ended on an item that was not the end of the stream (lines are
\* left unread), after publishing a snapshot, and a later read returned it
C2_Witness ==
    /\ cpc = "done"
    /\ lines # <<>>
    /\ published # <<>>
    /\ rafter
    /\ rpc = "copied"
    /\ rval = Last(published)

\* v is empty or the complete UI mapping of one frame decoded from the stream
ValidSnapshot(v) ==
    \/ ~v.some
    \/ \E i \in 1..Len(decoded) : IsMappingOf(v.value, decoded[i])

\* C3: in every reachable state the slot, and every copy a reader took of it, is
\* empty or the complete UI mapping of exactly one successfully decoded frame.
C3_SlotIsOneFrame ==
    /\ ValidSnapshot(cache)
    /\ ValidSnapshot(rval)

\* the reader holds a copy of the first frame's snapshot while the slot already
\* holds the second frame's
C3_Witness ==
    /\ Len(decoded) = 2
    /\ cache.some
    /\ rval.some
    /\ rval # cache
    /\ cache.value.cpu_usage # rval.value.cpu_usage

\* C4: the slot is guarded by mutual exclusion and written only by the consumer,
\* which takes the lock only with a fully read and mapped frame in hand and has
\* released it whenever it is at, or on its way to, a stream read.
C4_NoLockAcrossRead ==
    /\ [](/\ lockHolder \in {"none", "consumer", "reader"}
          /\ lockHolder = "consumer" <=> cpc \in {"store", "unlock"}
          /\ lockHolder = "reader" <=> rpc \in {"holding", "copied"}
          /\ cpc \in {"spawned", "next", "convert", "locking", "done"} =>
                lockHolder # "consumer")
    /\ [][ /\ cache' # cache =>
                 /\ cpc = "store"
                 /\ lockHolder = "consumer"
                 /\ lockHolder' = "consumer"
           /\ (lockHolder # "consumer" /\ lockHolder' = "consumer") =>
                 /\ lockHolder = "none"
                 /\ craw = NoFrame
                 /\ cmetrics.some
                 /\ IsMappingOf(cmetrics.value, Last(decoded))
           /\ (cpc # "next" /\ cpc' = "next") => lockHolder' # "consumer"
         ]_vars

\* the consumer has written a snapshot and is back at the stream read with lines
\* still to come, while the reader holds the lock
C4_Witness ==
    /\ cpc = "next"
    /\ published # <<>>
    /\ lines # <<>>
    /\ lockHolder = "reader"

\* the reader is blocked: it wants the lock and the lock is taken
ReaderBlocked == rpc = "waiting" /\ lockHolder # "none"

---------------------------------------------------------------------------
(* Claims about the stream decoder *)

\* what follows the marker on a data line
AfterMarker(text) == SubSeq(text, Len(Marker) + 1, Len(text))

\* a line with no character other than whitespace
IsBlankText(text) == \A i \in 1..Len(text) : IsWhitespace(text[i])

\* "err" for a read error, else "blank", "data" (starts with the marker) or "other"
Kind(e) ==
    IF ~e.ok THEN "err"
    ELSE IF IsBlankText(e.text) THEN "blank"
    ELSE IF StartsWith(e.text, Marker) THEN "data"
    ELSE "other"

ErrorFree(s) == \A i \in 1..Len(s) : s[i].ok

\* the content of a data line as the claims describe it after amendment: the
\* marker removed, then the whitespace at both ends
StrippedContent(text) == TrimEnd(TrimStart(AfterMarker(text)))

\* the stripped contents of the data lines s[from..to], in order
RECURSIVE Contents(_, _, _)
Contents(s, from, to) ==
    IF from > to THEN <<>>
    ELSE IF Kind(s[from]) = "data"
         THEN <<StrippedContent(s[from].text)>> \o Contents(s, from + 1, to)
         ELSE Contents(s, from + 1, to)

AllOfKind(s, from, to, k) == \A i \in from..to : Kind(s[i]) = k

\* the stream is one line "data:" c followed by one blank line
IsSingleEvent(s) ==
    /\ Len(s) = 2
    /\ Kind(s[1]) = "data"
    /\ Kind(s[2]) = "blank"

\* C6 (as amended): a stream of one line "data:" c and one blank line yields
\* exactly one payload, c without the marker, without the whitespace right after
\* the marker and without trailing whitespace, and then the sequence ends.
C6_SingleEvent ==
    IsSingleEvent(input) =>
        /\ Len(items) >= 1 => items[1] = OkItem(StrippedContent(input[1].text))
        /\ \A i \in 2..Len(items) : items[i] = NoneItem

\* the single event "data:b " (content with trailing whitespace) was decoded and
\* the end of the sequence was reported
C6_Witness ==
    /\ input = <<OkLine(Marker \o <<"b", " ">>), OkLine(<<>>)>>
    /\ Len(items) = 2
    /\ items[1] = OkItem(<<"b">>)
    /\ items[2] = NoneItem

\* C6 as stated: the payload is c with the marker and the whitespace right after
\* the marker removed, and nothing else
C6_Original ==
    IsSingleEvent(input) =>
        /\ Len(items) >= 1 => items[1] = OkItem(TrimStart(AfterMarker(input[1].text)))
        /\ \A i \in 2..Len(items) : items[i] = NoneItem

\* the stream is k >= 2 data lines followed by one blank line
IsMultiLineEvent(s) ==
    /\ Len(s) >= 3
    /\ AllOfKind(s, 1, Len(s) - 1, "data")
    /\ Kind(s[Len(s)]) = "blank"

\* C7: k >= 2 consecutive data lines followed by one blank line decode to exactly
\* one payload: their stripped contents joined with newlines in arrival order.
C7_MultiLineEvent ==
    IsMultiLineEvent(input) =>
        /\ Len(items) >= 1 =>
              items[1] = OkItem(Join(Contents(input, 1, Len(input) - 1)))
        /\ \A i \in 2..Len(items) : items[i] = NoneItem

\* "data: a", "data:b ", blank was decoded to the single payload "a\nb"
C7_Witness ==
    /\ input = <<OkLine(Marker \o <<" ", "a">>), OkLine(Marker \o <<"b", " ">>),
                 OkLine(<<>>)>>
    /\ Len(items) = 2
    /\ items[1] = OkItem(<<"a", "\n", "b">>)
    /\ items[2] = NoneItem

\* last index of the longest run of lines of kind k that starts at s[from]
\* (from - 1 when s[from] is not of kind k)
RECURSIVE RunEnd(_, _, _)
RunEnd(s, from, k) ==
    IF from <= Len(s) /\ Kind(s[from]) = k THEN RunEnd(s, from + 1, k)
    ELSE from - 1

\* the ends of the four runs of a stream read as data lines, blank lines, data
\* lines, blank lines
FirstDataEnd(s) == RunEnd(s, 1, "data")
FirstBlankEnd(s) == RunEnd(s, FirstDataEnd(s) + 1, "blank")
SecondDataEnd(s) == RunEnd(s, FirstBlankEnd(s) + 1, "data")
SecondBlankEnd(s) == RunEnd(s, SecondDataEnd(s) + 1, "blank")

\* the stream is two well-formed events and nothing else: one or more data
\* lines, one or more blank lines, one or more data lines, one or more blank lines
IsTwoEvents(s) ==
    /\ FirstDataEnd(s) >= 1
    /\ FirstBlankEnd(s) > FirstDataEnd(s)
    /\ SecondDataEnd(s) > FirstBlankEnd(s)
    /\ SecondBlankEnd(s) > SecondDataEnd(s)
    /\ SecondBlankEnd(s) = Len(s)

\* what a stream of two well-formed events must yield on the i-th call
TwoEventsItem(s, i) ==
    IF i = 1 THEN OkItem(Join(Contents(s, 1, FirstDataEnd(s))))
    ELSE IF i = 2
         THEN OkItem(Join(Contents(s, FirstBlankEnd(s) + 1, SecondDataEnd(s))))
         ELSE NoneItem

\* C8: two consecutive well-formed events decode to exactly two payloads in
\* arrival order, the second made of the second event's lines only, however many
\* blank lines separate or follow them; an empty stream decodes to no payload.
C8_Sequencing ==
    /\ IsTwoEvents(input) =>
          \A i \in 1..Len(items) : items[i] = TwoEventsItem(input, i)
    /\ input = <<>> => \A i \in 1..Len(items) : items[i] = NoneItem

\* "data: a", blank, blank, "data:b ", blank was decoded to "a", then "b", then
\* the end of the sequence
C8_Witness ==
    /\ input = <<OkLine(Marker \o <<" ", "a">>), OkLine(<<>>), OkLine(<<>>),
                 OkLine(Marker \o <<"b", " ">>), OkLine(<<>>)>>
    /\ items = <<OkItem(<<"a">>), OkItem(<<"b">>), NoneItem>>

\* index of the last blank line of s, 0 if it has none
LastBlank(s) ==
    IF \E i \in 1..Len(s) : Kind(s[i]) = "blank"
    THEN CHOOSE i \in 1..Len(s) :
            /\ Kind(s[i]) = "blank"
            /\ \A j \in (i + 1)..Len(s) : Kind(s[j]) # "blank"
    ELSE 0

\* the stripped contents of the data lines after the last blank line
TrailingData(s) == Contents(s, LastBlank(s) + 1, Len(s))

\* the blank line s[i] closes an event: a data line precedes it with no blank
\* line in between
ClosesEvent(s, i) ==
    /\ Kind(s[i]) = "blank"
    /\ \E j \in 1..(i - 1) :
          /\ Kind(s[j]) = "data"
          /\ \A k \in (j + 1)..(i - 1) : Kind(s[k]) # "blank"

ClosedEvents(s) == Cardinality({i \in 1..Len(s) : ClosesEvent(s, i)})

\* number of calls made before the first one that reported the end
CallsBeforeEnd ==
    Cardinality({i \in 1..Len(items) :
                    \A j \in 1..i : items[j].tag # "None"})

EndReported == \E i \in 1..Len(items) : items[i].tag = "None"

\* C9: when the stream ends with data lines that no blank line closed, the decoder
\* emits exactly one final payload made of those lines and the next call reports
\* the end; when nothing is pending at the end no payload is emitted for it.
C9_FinalFlush ==
    (ErrorFree(input) /\ EndReported) =>
        /\ \A i \in 1..CallsBeforeEnd : items[i].tag = "Ok"
        /\ \A i \in (CallsBeforeEnd + 1)..Len(items) : items[i] = NoneItem
        /\ IF TrailingData(input) # <<>>
           THEN /\ CallsBeforeEnd = ClosedEvents(input) + 1
                /\ items[CallsBeforeEnd] = OkItem(Join(TrailingData(input)))
           ELSE CallsBeforeEnd = ClosedEvents(input)

\* "data: a", blank, "data: a", "data:b " with no closing blank line: the second
\* payload is the flushed "a\nb", and the call after it reported the end
C9_Witness ==
    /\ input = <<OkLine(Marker \o <<" ", "a">>), OkLine(<<>>),
                 OkLine(Marker \o <<" ", "a">>), OkLine(Marker \o <<"b", " ">>)>>
    /\ items = <<OkItem(<<"a">>), OkItem(<<"a", "\n", "b">>), NoneItem>>

\* s without its lines that are neither blank nor data lines
RECURSIVE RemoveIgnored(_)
RemoveIgnored(s) ==
    IF s = <<>> THEN <<>>
    ELSE IF Kind(Head(s)) = "other" THEN RemoveIgnored(Tail(s))
    ELSE <<Head(s)>> \o RemoveIgnored(Tail(s))

\* the items of n successive calls of read_next_event on a stream
RECURSIVE RunDecoder(_, _, _)
RunDecoder(ls, buf, n) ==
    IF n = 0 THEN <<>>
    ELSE LET r == ReadNextEvent(ls, buf)
         IN <<r.item>> \o RunDecoder(r.lines, r.buffer, n - 1)

\* C10: lines that are neither blank nor data lines do not show in the output:
\* the items the decoder yields are those it yields for the same stream with all
\* such lines removed.
C10_IgnoredLines ==
    items = RunDecoder(RemoveIgnored(input), <<>>, Len(items))

\* an "event:" line sits between the two data lines of one event, and the event
\* was decoded to the single payload "a\nb"
C10_Witness ==
    /\ input = <<OkLine(Marker \o <<" ", "a">>),
                 OkLine(<<"e", "v", "e", "n", "t", ":", " ", "a">>),
                 OkLine(Marker \o <<"b", " ">>), OkLine(<<>>)>>
    /\ items = <<OkItem(<<"a", "\n", "b">>), NoneItem>>

\* C11: a read error ends the sequence: the error item is the last item the
\* decoder produces, so once an error item was returned no payload follows it, and
\* data lines read before the error never reach a later payload.
C11_ReadErrorTerminal ==
    \A i, j \in 1..Len(items) :
        (i < j /\ items[i].tag = "Err") => items[j].tag # "Ok"

---------------------------------------------------------------------------
(* Claims about the transport *)

\* the path text of prefix is a prefix of the path text of path, both given by
\* their segments; prefix ends with "/"
PathHasPrefix(path, prefix) ==
    /\ Len(path) >= Len(prefix)
    /\ SubSeq(path, 1, Len(prefix) - 1) = SubSeq(prefix, 1, Len(prefix) - 1)

\* C12: the base URL the clients hold has a path that ends with "/", and is the
\* configured URL unchanged when that already ended with "/"; every URL that
\* endpoint yields for a request path is on the base URL's host and its path
\* begins with the base path.
C12_BaseUrlContainment ==
    /\ transport.some =>
          /\ EndsWithSlash(transport.value.path)
          /\ EndsWithSlash(UrlParse(baseUrl).value.path)
                => transport.value = UrlParse(baseUrl).value
    /\ (call.op = "endpoint" /\ call.result.ok) =>
          /\ call.result.value.authority = transport.value.authority
          /\ PathHasPrefix(call.result.value.path, transport.value.path)

\* C13: Transport::get classifies its failures: a path that endpoint rejects
\* gives the URL error and no request; a response outside 2xx gives the HTTP
\* error and its body is not deserialized; a 2xx response whose body is not
\* valid JSON of the target type gives the Deserialize error; a value is
\* returned only for a 2xx response with a well-formed body.
C13_GetClassification ==
    call.op = "get" =>
        LET url == Endpoint(transport.value, call.arg)
            response == call.response
        IN /\ ~url.ok => (call.result = Err(InvalidUrl) /\ call.sent = <<>>)
           /\ (url.ok /\ response.kind = "reply" /\ ~Is2xx(response.status)) =>
                 /\ ~call.result.ok
                 /\ call.result.error.variant = "Http"
                 /\ ~call.parsed
           /\ (url.ok /\ response.kind = "reply" /\ Is2xx(response.status)
                      /\ ~response.body.wellFormed) =>
                 /\ ~call.result.ok
                 /\ call.result.error.variant = "Deserialize"
           /\ call.result.ok =>
                 /\ response.kind = "reply"
                 /\ Is2xx(response.status)
                 /\ response.body.wellFormed
                 /\ call.result.value = response.body.value

---------------------------------------------------------------------------
(* Claims about the capabilities and the bundle *)

CapabilityOps == {"list_dataflows", "latest_metrics", "load", "save"}

\* the last call was the named capability and it failed
Failed(c) == c.op \in CapabilityOps /\ ~c.result.ok

\* C14: a failed call of list_dataflows, latest_metrics, load or save returns
\* the interface error Message with the client error's text, whatever made it
\* fail; the bundle stays built (no panic), and the step of the failing call
\* leaves the consumer thread, its stream and the cached snapshot as they were.
C14_FailuresAreMessages ==
    /\ [](Failed(call) =>
             /\ call.result.error.variant = "Message"
             /\ call.result.error.message \in
                   {InvalidUrl.text, Http("request").text, Deserialize.text}
             /\ bundle.state = "built")
    /\ [][(call' # call /\ Failed(call')) =>
             UNCHANGED <<cacheVars, decoderVars, bundle, transport>>]_vars

\* a load failed on a body that is no preferences document while the slot
\* holds a snapshot
C14_Witness ==
    /\ call.op = "load"
    /\ call.response = Reply(200, BadBody)
    /\ ~call.result.ok
    /\ cache.some

\* C15: the remote legacy-command capability returns Unimplemented for every
\* argv and working directory in every state of a remote bundle; the call sends
\* no request and its step changes nothing but the caller's result.
C15_LegacyUnimplemented ==
    /\ [](Holds("legacy_cli_service", "ProtocolLegacyCliService") =>
             \A argv \in Argvs, working_dir \in WorkingDirs :
                 LegacyExecute(argv, working_dir)
                     = [result |-> Err(Unimplemented), sent |-> <<>>])
    /\ [](call.op = "execute" =>
             (call.result = Err(Unimplemented) /\ call.sent = <<>>))
    /\ [][(call' # call /\ call'.op = "execute") =>
             UNCHANGED <<cacheVars, decoderVars, feature, baseUrl, bundle,
                         transport, serverPrefs>>]_vars

\* execute was called with a command after a save reached the gateway and
\* while the slot holds a snapshot
C15_Witness ==
    /\ call.op = "execute"
    /\ call.arg[1] = <<"start", "x">>
    /\ serverPrefs.theme.some
    /\ cache.some

\* the configured base URL is no URL and the remote backend is built in
MalformedRemote == feature = "protocol" /\ ~UrlParse(baseUrl).ok

\* C16: with a malformed base URL default_service_bundle panics: no bundle is
\* ever returned, no transport exists, the consumer thread is never spawned and
\* no stream is opened; after the panic nothing runs again, so the
\* construction is not retried.
C16_FailFast ==
    /\ [](MalformedRemote =>
             /\ bundle.state \in {"none", "panicked"}
             /\ ~transport.some
             /\ cpc = "unspawned"
             /\ opens = 0)
    /\ [][(MalformedRemote /\ bundle = NoBundle) => bundle' = Panicked]_vars
    /\ [][bundle.state # "panicked"]_vars

C16_Witness ==
    /\ MalformedRemote
    /\ bundle = Panicked

RemoteImpls ==
    [preferences_store |-> "ProtocolPreferencesStore",
     coordinator_client |-> "ProtocolCoordinatorClient",
     telemetry_service |-> "ProtocolTelemetryService",
     legacy_cli_service |-> "ProtocolLegacyCliService"]

LocalImpls ==
    [preferences_store |-> "CliPreferencesStore",
     coordinator_client |-> "CliCoordinatorClient",
     telemetry_service |-> "CliTelemetryService",
     legacy_cli_service |-> "CliLegacyCliService"]

\* the four implementations are the remote ones, and each that holds a
\* transport holds the one transport of the clients, on the normalized
\* configured base URL
AllRemote ==
    /\ \A f \in DOMAIN RemoteImpls : bundle[f].impl = RemoteImpls[f]
    /\ transport.some
    /\ transport.value = NormalizeBaseUrl(baseUrl).value
    /\ bundle.protocol_clients = transport
    /\ \A f \in DOMAIN RemoteImpls :
          bundle[f].transport.some => bundle[f].transport = transport

\* the four implementations are the local ones and none holds a transport
AllLocal ==
    /\ \A f \in DOMAIN LocalImpls :
          bundle[f].impl = LocalImpls[f] /\ ~bundle[f].transport.some
    /\ ~bundle.protocol_clients.some

\* C17: a built bundle is all-remote or all-local, remote exactly for the
\* protocol feature; the metrics cache handle and the consumer thread exist
\* exactly in the remote case; once built, the bundle and the backend never
\* change.
C17_CoherentBackend ==
    /\ [](bundle.state = "built" =>
             /\ AllRemote \/ AllLocal
             /\ AllRemote <=> feature = "protocol"
             /\ bundle.metrics_cache <=> AllRemote
             /\ (cpc # "unspawned") <=> AllRemote)
    /\ [](bundle.state # "built" => cpc = "unspawned")
    /\ [][bundle.state = "built" => (bundle' = bundle /\ feature' = feature)]_vars

\* a remote bundle whose consumer has filled the slot and whose preferences
\* capability was used
C17_Witness ==
    /\ bundle.state = "built"
    /\ AllRemote
    /\ cache.some
    /\ call.op = "save"

---------------------------------------------------------------------------
(* Claims about the preferences and metrics mappings *)

\* a UI snapshot in which only the theme is set: every other field has the
\* empty value of its type
ThemeOnly(prefs) ==
    /\ prefs.auto_refresh_interval_secs = 0
    /\ ~prefs.show_system_info
    /\ ~prefs.default_view.some

\* what load returns for a stored snapshot
Loaded(stored) == MapPreferencesToUi(stored)

\* C18: a successful save of a snapshot with only the theme set leaves the
\* auto-refresh value that a load returns as it was before the save.
C18_PartialUpdate ==
    [][(call' # call /\ call'.op = "save" /\ call'.result.ok /\ ThemeOnly(call'.arg))
          => Loaded(serverPrefs').auto_refresh_interval_secs
                = Loaded(serverPrefs).auto_refresh_interval_secs]_vars

Min(a, b) == IF a < b THEN a ELSE b

\* UI -> wire -> UI
RoundTrip(prefs) == MapPreferencesToUi(MapPreferencesToProtocol(prefs, now))

\* the interval the claim gives for a wire flag
IntervalOf(flag) == IF flag.some /\ ~flag.value THEN 0 ELSE 1

\* C19: a load maps the wire flag absent, true, false to the interval 1, 1, 0;
\* a save sends the flag n > 0 for the interval n; so the round trip UI -> wire
\* -> UI, in the mapping and through the gateway, returns the interval
\* min(n, 1), and a second round trip changes nothing.
C19_LossyMapping ==
    /\ (call.op = "load" /\ call.result.ok) =>
          call.result.value.auto_refresh_interval_secs
              = IntervalOf(call.response.body.value.auto_refresh)
    /\ call.op = "save" =>
          LET n == call.arg.auto_refresh_interval_secs
          IN /\ call.sent # <<>>
             /\ call.sent[1].body.auto_refresh = Some(n > 0)
             /\ RoundTrip(call.arg).auto_refresh_interval_secs = Min(n, 1)
             /\ RoundTrip(RoundTrip(call.arg)) = RoundTrip(call.arg)
             /\ call.result.ok =>
                   Loaded(serverPrefs).auto_refresh_interval_secs = Min(n, 1)

\* an interval above 1 was saved and stored
C19_Witness ==
    /\ call.op = "save"
    /\ call.result.ok
    /\ call.arg.auto_refresh_interval_secs = MaxInterval
    /\ Loaded(serverPrefs).auto_refresh_interval_secs = 1

\* free is the saturating difference of the wire snapshot's total and used
\* bytes, and lies between 0 and the total
FreeBytesOf(wire, free) ==
    /\ free = IF wire.used_memory_bytes <= wire.total_memory_bytes
              THEN wire.total_memory_bytes - wire.used_memory_bytes
              ELSE 0
    /\ free >= 0
    /\ free <= wire.total_memory_bytes

\* C20: free_bytes of a mapped snapshot is total - used when used <= total and 0
\* when used > total, never negative and never above the total, in the value
\* latest_metrics returns and in the value the consumer stores in the slot.
C20_FreeBytesSaturate ==
    /\ (call.op = "latest_metrics" /\ call.result.ok) =>
          FreeBytesOf(call.response.body.value, call.result.value.memory.free_bytes)
    /\ cache.some =>
          FreeBytesOf(decoded[Len(published)], cache.value.memory.free_bytes)

\* both mappings were applied to a snapshot that uses more than its total
C20_Witness ==
    /\ call.op = "latest_metrics"
    /\ call.result.ok
    /\ call.response.body.value.used_memory_bytes
          > call.response.body.value.total_memory_bytes
    /\ call.result.value.memory.free_bytes = 0
    /\ cache.some
    /\ decoded[Len(published)].used_memory_bytes
          > decoded[Len(published)].total_memory_bytes
    /\ cache.value.memory.free_bytes = 0

---------------------------------------------------------------------------
(* Claims about the life of the metrics slot and its worker *)

\* C29: the metrics slot starts empty, and once it holds a snapshot it holds
\* one in every later state, whatever the stream delivers afterwards and
\* however the reader's steps interleave.
C29_SlotMonotone ==
    /\ ~cache.some
    /\ [][cache.some => cache'.some]_vars

\* the slot still holds a snapshot after the stream ended and a reader copied it
C29_Witness ==
    /\ cache.some
    /\ cpc = "done"
    /\ Len(published) >= 2
    /\ rafter
    /\ rval.some

\* the worker's step out of "spawned" that does not enter the read loop: the
\* open of the stream failed
OpenFailedStep == cpc = "spawned" /\ cpc' \notin {"spawned", "next"}

\* C30: default_service_bundle returns the remote bundle with the worker
\* spawned and no stream opened yet; when the open then fails the worker is done
\* at once with the slot empty, a worker that is done never runs or writes
\* again, and each of the four on-demand capabilities can still be called.
C30_OpenFailureIsNotFatal ==
    /\ [][(bundle = NoBundle /\ bundle'.state = "built" /\ feature = "protocol")
             => (cpc' = "spawned" /\ opens' = 0 /\ ~cache'.some)]_vars
    /\ [][OpenFailedStep => (cpc' = "done" /\ ~cache'.some /\ bundle' = bundle)]_vars
    /\ [][cpc = "done" => (cpc' = "done" /\ cache' = cache)]_vars
    /\ []((cpc = "done" /\ bundle.state = "built") =>
             /\ ENABLED CallListDataflows
             /\ ENABLED CallLatestMetrics
             /\ ENABLED CallPreferencesLoad
             /\ ENABLED CallPreferencesSave)

\* the open failed, the slot is empty, and a load made afterwards succeeded
C30_Witness ==
    /\ cpc = "done"
    /\ opens = 1
    /\ decoded = <<>>
    /\ ~cache.some
    /\ call.op = "load"
    /\ call.result.ok

---------------------------------------------------------------------------
(* Claims about the decoder's blocks and its state *)

\* the number of blocks of s, cut at its blank lines, that hold a data line;
\* has tells whether the block being read holds one already
RECURSIVE DataBlocks(_, _)
DataBlocks(s, has) ==
    IF s = <<>> THEN (IF has THEN 1 ELSE 0)
    ELSE IF Kind(Head(s)) = "blank"
         THEN (IF has THEN 1 ELSE 0) + DataBlocks(Tail(s), FALSE)
         ELSE DataBlocks(Tail(s), has \/ Kind(Head(s)) = "data")

DataLines(s) == {i \in 1..Len(s) : Kind(s[i]) = "data"}

Payloads == {i \in 1..Len(items) : items[i].tag = "Ok"}

\* every data line of s stands alone in its block and has empty content
OnlyEmptyEvents(s) ==
    /\ Cardinality(DataLines(s)) = DataBlocks(s, FALSE)
    /\ \A i \in DataLines(s) : StrippedContent(s[i].text) = <<>>

\* C27: for a stream without read errors that was read to its end, the number
\* of payloads is the number of blocks between blank lines that hold at least
\* one data line (a block without a data line gives none); a block whose only
\* data line has empty content gives the empty payload, which the typed stage
\* reports as an error item.
C27_PayloadCount ==
    (ErrorFree(input) /\ EndReported) =>
        /\ Cardinality(Payloads) = DataBlocks(input, FALSE)
        /\ OnlyEmptyEvents(input) =>
              \A i \in Payloads :
                  /\ items[i] = OkItem(<<>>)
                  /\ ParseMetrics(items[i].payload) = ErrFrame

\* a block of an "event:" line only, a block of an empty "data:" line and a
\* last block "data: a": two payloads, the first of them empty
C27_Witness ==
    /\ input = <<OkLine(<<"e", "v", "e", "n", "t", ":", " ", "a">>), OkLine(<<>>),
                 OkLine(Marker), OkLine(<<" ">>),
                 OkLine(Marker \o <<" ", "a">>)>>
    /\ items = <<OkItem(<<>>), OkItem(<<"a">>), NoneItem>>

\* C28: the buffer is empty before the first call and right after every
\* payload, so the item that follows a payload is the one a fresh decoder
\* yields on the lines that are left; a payload the typed stage cannot
\* deserialize becomes one error item and the typed call consumes the lines
\* and leaves the buffer as the untyped call does; after the end was reported
\* every later call reports the end.
C28_NoStateLeak ==
    /\ [](items = <<>> => buffer = <<>>)
    /\ []((items # <<>> /\ Last(items).tag = "Ok") => buffer = <<>>)
    /\ [][((items = <<>> \/ Last(items).tag = "Ok") /\ items' # items)
             => Last(items') = ReadNextEvent(lines, <<>>).item]_vars
    /\ [](LET r == ReadNextEvent(lines, buffer)
              t == MetricsStreamNext(lines, buffer)
          IN (r.item.tag = "Ok" /\ ParseMetrics(r.item.payload).tag = "Err") =>
                (t.item = ErrFrame /\ t.lines = r.lines /\ t.buffer = r.buffer))
    /\ [](\A i, j \in 1..Len(items) :
             (i < j /\ items[i] = NoneItem) => items[j] = NoneItem)

\* two payloads of one stream, the second made of the lines after the first
\* only, then the end reported twice
C28_Witness ==
    /\ input = <<OkLine(Marker \o <<" ", "a">>), OkLine(<<>>),
                 OkLine(Marker \o <<"b", " ">>)>>
    /\ items = <<OkItem(<<"a">>), OkItem(<<"b">>), NoneItem, NoneItem>>
    /\ buffer = <<>>

---------------------------------------------------------------------------
(* Claims about the dataflow summaries of the coordinator client *)

\* the display strings the specification documents for each enum
StatusStrings ==
    {"pending", "running", "stopped", "destroyed", "failed", "unknown"}
NodeStatusStrings == {"initializing", "running", "stopped", "failed", "unknown"}
NodeKindStrings == {"runtime", "operator", "custom"}

DocumentedStatus ==
    [st \in DataflowStatuses |->
        CASE st = "Pending" -> "pending" [] st = "Running" -> "running"
          [] st = "Stopped" -> "stopped" [] st = "Destroyed" -> "destroyed"
          [] st = "Failed" -> "failed" [] st = "Unknown" -> "unknown"]

\* the wire summaries of a successful list_dataflows call and their UI
\* summaries
Listed == call.op = "list_dataflows" /\ call.result.ok
WireList == call.response.body.value
UiList == call.result.value

\* C21: every variant of DataflowStatus, NodeStatus and NodeKind is mapped to a
\* non-empty string of the documented lowercase set, distinct variants of one
\* enum to distinct strings (no two variants share a fallback string), and the
\* summaries list_dataflows returns carry these strings: the dataflow status
\* the documented string of its wire variant, each node status and kind a
\* string of the documented set of its enum
C21_DisplayStrings ==
    /\ \A a \in DataflowStatuses :
          /\ FormatStatus(a) \in StatusStrings /\ FormatStatus(a) # ""
          /\ \A b \in DataflowStatuses : FormatStatus(a) = FormatStatus(b) => a = b
    /\ \A a \in NodeStatuses :
          /\ FormatNodeStatus(a) \in NodeStatusStrings /\ FormatNodeStatus(a) # ""
          /\ \A b \in NodeStatuses :
                FormatNodeStatus(a) = FormatNodeStatus(b) => a = b
    /\ \A a \in NodeKinds :
          /\ FormatNodeKind(a) \in NodeKindStrings /\ FormatNodeKind(a) # ""
          /\ \A b \in NodeKinds : FormatNodeKind(a) = FormatNodeKind(b) => a = b
    /\ Listed =>
          /\ Len(UiList) = Len(WireList)
          /\ \A i \in 1..Len(WireList) :
                /\ UiList[i].status = DocumentedStatus[WireList[i].status]
                /\ Len(UiList[i].nodes) = Len(WireList[i].nodes)
                /\ \A j \in 1..Len(WireList[i].nodes) :
                      /\ UiList[i].nodes[j].status \in NodeStatusStrings
                      /\ UiList[i].nodes[j].kind \in NodeKindStrings
                      /\ (WireList[i].nodes[j].kind = "Operator")
                            = (UiList[i].nodes[j].kind = "operator")
                      /\ (WireList[i].nodes[j].status = "Initializing")
                            = (UiList[i].nodes[j].status = "initializing")

C21_Witness ==
    /\ Listed
    /\ Len(UiList) = 1
    /\ WireList[1].status = "Destroyed"
    /\ UiList[1].status = "destroyed"
    /\ Len(UiList[1].nodes) = 1
    /\ WireList[1].nodes[1].kind = "Operator"
    /\ UiList[1].nodes[1].kind = "operator"
    /\ UiList[1].nodes[1].status = "initializing"

\* the text "{a} ({b})" and the text "{a} (env: {b})"
WithParenthesis(a, b) == a \o <<" ", "(">> \o b \o <<")">>
WithEnv(a, b) == a \o <<" ", "(", "e", "n", "v", ":", " ">> \o b \o <<")">>

\* the display text the specification gives for a provenance
DocumentedSource(src) ==
    IF src.variant = "Local" THEN src.path
    ELSE IF src.variant = "Git"
    THEN IF src.rev.some THEN Some(WithParenthesis(src.repo, src.rev.value))
         ELSE Some(src.repo)
    ELSE IF src.variant = "Wasm" THEN Some(src.module)
    ELSE IF src.variant = "Python"
    THEN IF src.environment.some
         THEN Some(WithEnv(src.module, src.environment.value))
         ELSE Some(src.module)
    ELSE None_

\* C22: the provenance of every node list_dataflows returns is the single
\* optional display text of its wire provenance: a local path as it is (absent
\* when the path is absent), a git source "{repo} ({rev})" with a revision and
\* the repo without, a wasm source its module, a python source
\* "{module} (env: {environment})" with an environment and the module without,
\* an unknown source no text
C22_NodeSource ==
    Listed =>
        \A i \in 1..Len(WireList) :
            \A j \in 1..Len(WireList[i].nodes) :
                /\ UiList[i].nodes[j].source
                      = DocumentedSource(WireList[i].nodes[j].source)
                /\ (WireList[i].nodes[j].source.variant = "Unknown")
                      => ~UiList[i].nodes[j].source.some

C22_Witness ==
    /\ Listed
    /\ Len(UiList) = 1
    /\ Len(UiList[1].nodes) = 1
    /\ WireList[1].nodes[1].source = PythonSource(<<"m">>, Some(<<"e">>))
    /\ UiList[1].nodes[1].source
          = Some(<<"m", " ", "(", "e", "n", "v", ":", " ", "e", ")">>)

\* the reply of the gateway of the proxy test: one dataflow named "demo",
\* running, without nodes
DemoReply(answer) ==
    /\ answer.kind = "reply"
    /\ answer.status = 200
    /\ answer.body.wellFormed
    /\ Len(answer.body.value) = 1
    /\ answer.body.value[1].name = Some("demo")
    /\ answer.body.value[1].status = "Running"

\* C23: whatever HTTP_PROXY, HTTPS_PROXY and ALL_PROXY are set to, also the
\* address of a host where nothing listens, list_dataflows connects to the
\* address of the base URL and returns what the gateway's answer gives when it
\* is delivered directly; when the gateway answers with the one-element list
\* of a running dataflow named "demo", the call returns exactly one summary,
\* named "demo", with status "running"
C23_ProxyIndependence ==
    (call.op = "list_dataflows") =>
        /\ call.contacted = baseUrl.authority
        /\ call.result = ListDataflows(transport.value, call.response).result
        /\ DemoReply(call.response) =>
              /\ call.result.ok
              /\ Len(call.result.value) = 1
              /\ call.result.value[1].name = "demo"
              /\ call.result.value[1].status = "running"

C23_Witness ==
    /\ call.op = "list_dataflows"
    /\ call.arg = [HTTP_PROXY |-> Some(ProxyAuthority),
                   HTTPS_PROXY |-> Some(ProxyAuthority),
                   ALL_PROXY |-> Some(ProxyAuthority)]
    /\ DemoReply(call.response)
    /\ call.result.ok
    /\ Len(call.result.value) = 1
    /\ call.result.value[1].name = "demo"
    /\ call.result.value[1].status = "running"

---------------------------------------------------------------------------
(* Claims about the view navigation *)

\* a step that is a call of push_view, of pop_view
IsPush == pushes' = pushes + 1
IsPop == call'.op = "pop_view"

---------------------------------------------------------------------------
(* Claims about the log subscription and the workers *)

IsPrefix(s, t) == Len(s) <= Len(t) /\ SubSeq(t, 1, Len(s)) = s

\* the events the worker has decoded and handed to the channel
Sent == IF lpc = "send" THEN SubSeq(levents, 1, Len(levents) - 1) ELSE levents

\* C24: the events received from the channel spawn_protocol_log_stream
\* returned are always a prefix of the events the worker decoded from the
\* stream, in the same order; while the receiver is held every decoded event
\* the worker has sent is either received or waiting in the channel, in order,
\* so none is skipped and none delivered twice; and the received sequence
\* grows by one event at a time
C24_ArrivalOrder ==
    /\ [](IsPrefix(received, levents))
    /\ []((rx = "held") => received \o chan = Sent)
    /\ [][received' # received =>
            /\ Len(received') = Len(received) + 1
            /\ SubSeq(received', 1, Len(received)) = received
            /\ received'[Len(received')] = levents[Len(received')]
            /\ levents' = levents]_vars

C24_Witness ==
    /\ lpc = "done"
    /\ levents = <<LogX, LogY>>
    /\ received = <<LogX, LogY>>
    /\ chan = <<>>
    /\ rx = "held"

\* C25: each subscription opens at most one stream and starts at most one
\* worker: the metrics worker is started once, by the composition of the
\* bundle, and calls system_metrics_stream at most once; the log worker exists
\* exactly when spawn_protocol_log_stream started its one thread; the lines of
\* each stream are taken only by a step of its own worker; and a log
\* subscription whose stream cannot be opened starts no thread, returns no
\* receiver and stays that way
C25_OneConsumer ==
    /\ [](opens <= 1 /\ lopens <= 1 /\ lthreads <= 1)
    /\ []((lthreads = 1) = (lpc \in {"next", "send", "done"}))
    /\ []((rx # "none") => lthreads = 1)
    /\ [][(cpc' # cpc /\ cpc' = "spawned") =>
            (cpc = "unspawned" /\ bundle = NoBundle /\ bundle'.state = "built")]_vars
    /\ [][(cpc' # cpc /\ cpc = "unspawned") => cpc' = "spawned"]_vars
    /\ [][lines' # lines => (cpc \in {"spawned", "next"} /\ logVars' = logVars)]_vars
    /\ [][llines' # llines =>
            (lpc \in {"idle", "next"} /\ lines' = lines /\ buffer' = buffer)]_vars
    /\ []((lpc = "failed") =>
            (lthreads = 0 /\ rx = "none" /\ lopens = 1 /\ chan = <<>>
             /\ received = <<>> /\ levents = <<>>))
    /\ [][lpc = "failed" => lpc' = "failed"]_vars
    /\ []((lopens = 1 /\ ~GetStream(transport.value, V1LogsStream(DataflowId),
                                    lresponse).ok) => lpc = "failed")

C25_Witness ==
    /\ lpc = "failed"
    /\ lopens = 1
    /\ rx = "none"
    /\ cpc = "done"
    /\ opens = 1
    /\ cache.some

---------------------------------------------------------------------------
(* Claims about the end of the log worker *)

\* the worker waits in stream.next() on a stream that is open and silent
WorkerBlocked == lpc = "next" /\ ReadBlocks(lresponse.ends, llines, lbuffer)

\* the item the worker's next call of stream.next() returns
NextLogItem == LogStreamNext(llines, lbuffer).item

\* C31: the log worker ends exactly when stream.next() reports the end of the
\* stream or an error item, or when it sends after the receiver was dropped,
\* and once ended it does nothing more; after the receiver is dropped no event
\* is forwarded; the drop itself does not move the worker, which only learns
\* of it in the send of the next decoded event; and a worker waiting on a
\* silent stream has no step and stays where it is whatever the holder of the
\* receiver does, so it never ends
C31_WorkerTermination ==
    /\ [][(lpc # "done" /\ lpc' = "done") =>
            \/ lpc = "next" /\ NextLogItem.tag \in {"None", "Err"}
            \/ lpc = "send" /\ rx = "dropped"]_vars
    /\ [][(lpc = "next" /\ lpc' # lpc) =>
            lpc' = IF NextLogItem.tag = "Ok" THEN "send" ELSE "done"]_vars
    /\ [][(lpc = "send" /\ lpc' # lpc) =>
            lpc' = IF rx = "dropped" THEN "done" ELSE "next"]_vars
    /\ [][lpc = "done" =>
            (lpc' = "done" /\ llines' = llines /\ levents' = levents)]_vars
    /\ [][rx = "dropped" =>
            (rx' = "dropped" /\ chan' = <<>> /\ received' = received)]_vars
    /\ [][(rx = "held" /\ rx' = "dropped") =>
            (lpc' = lpc /\ llines' = llines /\ levents' = levents)]_vars
    /\ [](WorkerBlocked => (~ENABLED LogWorkerNext /\ ~ENABLED LogWorkerSend))
    /\ [][WorkerBlocked =>
            (lpc' = "next" /\ llines' = llines /\ lbuffer' = lbuffer)]_vars

\* the receiver was dropped after one event and the worker waits for a second
\* one that does not come
C31_Witness ==
    /\ rx = "dropped"
    /\ WorkerBlocked
    /\ levents = <<LogX>>
    /\ received = <<LogX>>
    /\ llines # <<>>

---------------------------------------------------------------------------
(* Claims about the agreement of the metrics mappings *)

UiMetricsFields ==
    {"cpu_usage", "memory_usage", "memory", "load_average", "last_update"}

\* C32: for every wire snapshot the streaming mapping (convert_metrics) and
\* the one-shot mapping (map_metrics_to_ui) give the same cpu usage, memory
\* usage, total, used and free bytes, usage percent and load averages; the
\* streaming result carries the instant of the conversion as last_update, the
\* one-shot result carries none, and neither has a field for the wire
\* timestamp
C32_MappingsAgree ==
    /\ [](call.streaming.some =>
            /\ DOMAIN call.streaming.value = UiMetricsFields
            /\ call.streaming.value.last_update.some
            /\ call.streaming.value.last_update.value <= now)
    /\ [][(~call.streaming.some /\ call'.streaming.some) =>
            call'.streaming.value.last_update = Some(now)]_vars
    /\ [](call.oneshot.some =>
            /\ DOMAIN call.oneshot.value = UiMetricsFields
            /\ ~call.oneshot.value.last_update.some)
    /\ []((call.streaming.some /\ call.oneshot.some) =>
            LET a == call.streaming.value
                b == call.oneshot.value
            IN /\ a.cpu_usage = b.cpu_usage
               /\ a.memory_usage = b.memory_usage
               /\ a.memory.total_bytes = b.memory.total_bytes
               /\ a.memory.used_bytes = b.memory.used_bytes
               /\ a.memory.free_bytes = b.memory.free_bytes
               /\ a.memory.usage_percent = b.memory.usage_percent
               /\ a.load_average = b.load_average
               /\ [a EXCEPT !.last_update = None_] = b)

\* both mappings applied to a snapshot with more used than total bytes and
\* load averages, the streaming one after the clock moved
C32_Witness ==
    /\ call.streaming.some
    /\ call.oneshot.some
    /\ call.arg.used_memory_bytes > call.arg.total_memory_bytes
    /\ call.arg.load_average.some
    /\ call.arg.timestamp = 1
    /\ call.streaming.value.last_update = Some(1)
    /\ call.oneshot.value.memory.free_bytes = 0

---------------------------------------------------------------------------
(* Claims about the fields a remote save of the preferences drops *)

WirePrefsFields == {"theme", "ui_mode", "auto_refresh", "updated_at"}

\* the flag a load reads from a stored snapshot: on unless stored as off
StoredFlag(stored) == ~stored.auto_refresh.some \/ stored.auto_refresh.value

\* the default view a load derives from a stored mode
ViewOfMode(mode) ==
    IF ~mode.some THEN None_
    ELSE IF mode.value = "Auto" THEN Some("auto")
    ELSE IF mode.value = "Cli" THEN Some("cli")
    ELSE IF mode.value = "Tui" THEN Some("tui")
    ELSE Some("minimal")

\* the body of the request a save sent, the snapshot a load was answered with
SavedBody == call.sent[1].body
LoadedBody == call.response.body.value

\* C33: a save(p) that sends a request sends exactly one PUT whose body has the
\* theme of p, auto_refresh set to (p.auto_refresh_interval_secs > 0), no
\* ui_mode and no field for show_system_info or default_view; a successful
\* load, also the one that follows a successful save, returns show_system_info
\* equal to the stored auto-refresh flag and default_view derived from the
\* stored ui_mode, whatever p.show_system_info and p.default_view were
C33_DroppedFields ==
    /\ []((call.op = "save" /\ call.sent # <<>>) =>
            /\ Len(call.sent) = 1
            /\ call.sent[1].method = "PUT"
            /\ DOMAIN SavedBody = WirePrefsFields
            /\ SavedBody.theme = Some(call.arg.theme)
            /\ SavedBody.auto_refresh
                  = Some(call.arg.auto_refresh_interval_secs > 0)
            /\ ~SavedBody.ui_mode.some)
    /\ []((call.op = "save" /\ call.result.ok) => call.sent # <<>>)
    /\ []((call.op = "load" /\ call.result.ok) =>
            /\ call.result.value.show_system_info = StoredFlag(LoadedBody)
            /\ call.result.value.default_view = ViewOfMode(LoadedBody.ui_mode))
    /\ [][(call.op = "save" /\ call.result.ok /\ call'.op = "load"
            /\ call'.result.ok) =>
            /\ call'.response.body.value = serverPrefs
            /\ call'.result.value.show_system_info = StoredFlag(serverPrefs)
            /\ call'.result.value.default_view = ViewOfMode(serverPrefs.ui_mode)]_vars

\* a load after the theme "dark" was saved with refresh off: the stored mode
\* gives the default view, the stored flag the system info
C33_Witness ==
    /\ call.op = "load"
    /\ call.result.ok
    /\ LoadedBody.theme = Some("dark")
    /\ LoadedBody.auto_refresh = Some(FALSE)
    /\ LoadedBody.ui_mode = Some("Tui")
    /\ call.result.value.show_system_info = FALSE
    /\ call.result.value.default_view = Some("tui")

===========================================================================
